---- MODULE Spec2Model ----
(***************************************************************************)
(* Markdown2GDocsAddon: the line-by-line Markdown to Google Docs           *)
(* converter of src/MarkdownParser.js and src/MarkdownUtils.js.            *)
(*                                                                         *)
(* A line of text is a sequence of characters, each a string.  The host    *)
(* document is the log `ops` of the writes made to it, each tagged with    *)
(* the source lines it was built from.                                     *)
(*                                                                         *)
(* Spec     the buffered parseAndInsertMarkdown (MarkdownParser.js 69-176),*)
(*          the definition in force (the later declaration of the file)    *)
(* SpecCtx  the context parseAndInsertMarkdown (MarkdownParser.js 7-56)    *)
(*          over MarkdownUtils                                             *)
(***************************************************************************)
EXTENDS Integers, Sequences, FiniteSets, TLC

VARIABLES
    lines,            \* markdownText.split('\n')
    pc,               \* position in parseAndInsertMarkdown
    i,                \* index of the line the running forEach is at
    ops,              \* the writes made to the host document, in order
    err,              \* the error that ended the conversion, or "none"
    inTable, tableLines,
    inBlockquote, blockquoteLines,
    inCodeBlock, codeBlockText,
    codeSrc,          \* (history) source lines accumulated in codeBlockText
    footnotes,        \* module-level footnote table
    referenceLinks,   \* module-level reference-link table
    ctxCodeBlockText, \* context.codeBlockText: "undefined" or a text
    linkLastIndex,    \* regex.link.lastIndex (regex.link has the g flag)
    returned          \* the values returned by functions called directly

vars == << lines, pc, i, ops, err, inTable, tableLines, inBlockquote,
           blockquoteLines, inCodeBlock, codeBlockText, codeSrc, footnotes,
           referenceLinks, ctxCodeBlockText, linkLastIndex, returned >>

(***************************************************************************)
(* Bounds                                                                  *)
(***************************************************************************)
MaxLines == 3

\* the number of direct calls of a function in a row
MaxCalls == 2

(***************************************************************************)
(* Characters and strings                                                  *)
(***************************************************************************)
Space == {" ", "\t", "\n"}

Digit == {"0", "1", "2", "3", "4", "5", "6", "7", "8", "9"}

Letter == {"a", "b", "c", "d", "e", "f", "g", "h", "i", "j", "k", "l", "m", "n", "o",
           "p", "q", "r", "s", "t", "u", "v", "w", "x", "y", "z", "A", "B", "C", "D",
           "E", "F", "G", "H", "I", "J", "K", "L", "M", "N", "O", "P", "Q", "R", "S",
           "T", "U", "V", "W", "X", "Y", "Z"}

\* the class \w
WordChar == Letter \cup Digit \cup {"_"}

\* number of leading characters of s that are in set S
LeadingCount(s, S) ==
    IF \A k \in 1..Len(s) : s[k] \in S THEN Len(s)
    ELSE (CHOOSE k \in 1..Len(s) : s[k] \notin S /\ \A j \in 1..(k-1) : s[j] \in S) - 1

\* number of trailing characters of s that are in set S
TrailingCount(s, S) ==
    IF \A k \in 1..Len(s) : s[k] \in S THEN Len(s)
    ELSE Len(s) - (CHOOSE k \in 1..Len(s) :
                      s[k] \notin S /\ \A j \in (k+1)..Len(s) : s[j] \in S)

Drop(s, n) == SubSeq(s, n + 1, Len(s))

\* String.prototype.trim
Trim(s) ==
    IF \A k \in 1..Len(s) : s[k] \in Space THEN << >>
    ELSE SubSeq(s, LeadingCount(s, Space) + 1, Len(s) - TrailingCount(s, Space))

\* String.prototype.startsWith
StartsWith(s, p) == Len(s) >= Len(p) /\ SubSeq(s, 1, Len(p)) = p

\* String.prototype.split(sep) for a one-character separator
RECURSIVE Split(_, _)
Split(s, sep) ==
    IF \A k \in 1..Len(s) : s[k] # sep THEN << s >>
    ELSE LET k == CHOOSE k \in 1..Len(s) : s[k] = sep /\ \A j \in 1..(k-1) : s[j] # sep
         IN  << SubSeq(s, 1, k - 1) >> \o Split(Drop(s, k), sep)

\* Array.prototype.join(sep)
RECURSIVE Join(_, _)
Join(ss, sep) ==
    IF Len(ss) = 0 THEN << >>
    ELSE IF Len(ss) = 1 THEN ss[1]
    ELSE ss[1] \o sep \o Join(Tail(ss), sep)

Range(s) == { s[k] : k \in 1..Len(s) }

(***************************************************************************)
(* The host document: one record per write                                 *)
(*   kind     InsertText | Paragraph | Heading | ListItem | Table |        *)
(*            Blockquote | CodeBlock | HorizontalRule | Image | Footnote   *)
(*   src      (history) the source lines the write was built from          *)
(*   rows     of a Table: its rows, each a sequence of [text, align]       *)
(*   styles   for each character of text, the set of attributes set on it  *)
(*            (bold, italic, strike, link)                                 *)
(***************************************************************************)
Op(kind, src, text, level, ordered, rows) ==
    [kind |-> kind, src |-> src, text |-> text, level |-> level,
     ordered |-> ordered, rows |-> rows, styles |-> [k \in 1..Len(text) |-> {}]]

TextOp(kind, src, text) == Op(kind, src, text, 0, FALSE, << >>)

\* a buffered line: its text and (history) the source line it came from
Buffered(n, text) == [src |-> n, text |-> text]

Sources(buf) == [k \in 1..Len(buf) |-> buf[k].src]

(***************************************************************************)
(* MarkdownParser.js: line predicates                                      *)
(***************************************************************************)
\* the backtick, which a TLA+ string cannot hold
Backtick == "bt"

FenceMark == << Backtick, Backtick, Backtick >>

RuleMark == << "-", "-", "-" >>

\* /^#{1,6}\s/
isHeading(line) ==
    LET n == LeadingCount(line, {"#"})
    IN  n >= 1 /\ n <= 6 /\ Len(line) > n /\ line[n + 1] \in Space

\* the length of the list marker at the head of s, 0 when there is none:
\* (\-|\*|\+|\d+\.)
MarkerLen(s) ==
    IF Len(s) >= 1 /\ s[1] \in {"-", "*", "+"} THEN 1
    ELSE LET d == LeadingCount(s, Digit)
         IN  IF d >= 1 /\ Len(s) > d /\ s[d + 1] = "." THEN d + 1 ELSE 0

\* /^\s*(\-|\*|\+|\d+\.)\s/
isList(line) ==
    LET s == Drop(line, LeadingCount(line, Space))
        m == MarkerLen(s)
    IN  m >= 1 /\ Len(s) > m /\ s[m + 1] \in Space

\* /\|/.test(line) && (line.trim().indexOf('|') === 0 || /^[\|\s:\-]+$/.test(line.trim()))
isTable(line) ==
    /\ "|" \in Range(line)
    /\ \/ Trim(line)[1] = "|"
       \/ Range(Trim(line)) \subseteq ({"|", ":", "-"} \cup Space)

\* /^\s*>/
isBlockquote(line) ==
    LET w == LeadingCount(line, Space)
    IN  Len(line) > w /\ line[w + 1] = ">"

\* /!\[.*\]\(.*\)/
isImage(line) ==
    \E a \in 1..Len(line) : \E b \in (a + 2)..Len(line) : \E c \in (b + 2)..Len(line) :
        /\ line[a] = "!" /\ line[a + 1] = "["
        /\ line[b] = "]" /\ line[b + 1] = "("
        /\ line[c] = ")"

\* /!\[.*\]\((.*)\)/ : both .* are greedy, so the url runs from the last "]("
\* that still has a ")" after it to the last ")" of the line
extractImageUrl(line) ==
    LET c == CHOOSE c \in 1..Len(line) :
                 line[c] = ")" /\ \A k \in (c + 1)..Len(line) : line[k] # ")"
        ok(b) == b >= 3 /\ b + 1 < c /\ line[b] = "]" /\ line[b + 1] = "("
        b == CHOOSE b \in 1..Len(line) : ok(b) /\ \A k \in (b + 1)..Len(line) : ~ok(k)
    IN  SubSeq(line, b + 2, c - 1)

(***************************************************************************)
(* MarkdownParser.js: footnote and reference-link definitions              *)
(***************************************************************************)
\* /^\[\^(\w+)\]:\s*(.*)$/
isFootnoteDefinition(line) ==
    LET n == LeadingCount(Drop(line, 2), WordChar)
    IN  /\ StartsWith(line, << "[", "^" >>)
        /\ n >= 1
        /\ StartsWith(Drop(line, 2 + n), << "]", ":" >>)

FootnoteId(line) == SubSeq(line, 3, 2 + LeadingCount(Drop(line, 2), WordChar))

FootnoteText(line) ==
    LET rest == Drop(line, 4 + LeadingCount(Drop(line, 2), WordChar))
    IN  Drop(rest, LeadingCount(rest, Space))

\* extractFootnoteDefinition that keeps the entry an identifier already has
extractFootnoteDefinitionKeepFirst(table, line) ==
    IF isFootnoteDefinition(line) /\ FootnoteId(line) \notin DOMAIN table
    THEN [id \in DOMAIN table \cup {FootnoteId(line)} |->
             IF id = FootnoteId(line) THEN FootnoteText(line) ELSE table[id]]
    ELSE table

\* footnotes[match[1]] = match[2]
extractFootnoteDefinition(table, line) ==
    IF isFootnoteDefinition(line)
    THEN [id \in DOMAIN table \cup {FootnoteId(line)} |->
             IF id = FootnoteId(line) THEN FootnoteText(line) ELSE table[id]]
    ELSE table

\* the part of a link definition after "[id]:" and the blanks that follow
LinkRest(line) ==
    LET rest == Drop(line, 3 + LeadingCount(Drop(line, 1), WordChar))
    IN  Drop(rest, LeadingCount(rest, Space))

\* /^\[(\w+)\]:\s*(\S+)(?:\s+"(.+)")?$/
isLinkDefinition(line) ==
    LET n    == LeadingCount(Drop(line, 1), WordChar)
        rest == LinkRest(line)
        url  == LeadingCount(rest, {c \in Range(rest) : c \notin Space})
        tail == Drop(rest, url)
        t    == Drop(tail, LeadingCount(tail, Space))
    IN  /\ StartsWith(line, << "[" >>)
        /\ n >= 1
        /\ StartsWith(Drop(line, 1 + n), << "]", ":" >>)
        /\ url >= 1
        /\ \/ tail = << >>
           \/ /\ LeadingCount(tail, Space) >= 1
              /\ Len(t) >= 3 /\ t[1] = "\"" /\ t[Len(t)] = "\""

LinkId(line) == SubSeq(line, 2, 1 + LeadingCount(Drop(line, 1), WordChar))

LinkUrl(line) ==
    LET rest == LinkRest(line)
    IN  SubSeq(rest, 1, LeadingCount(rest, {c \in Range(rest) : c \notin Space}))

\* match[3] || ""
LinkTitle(line) ==
    LET rest == LinkRest(line)
        tail == Drop(rest, LeadingCount(rest, {c \in Range(rest) : c \notin Space}))
        t    == Drop(tail, LeadingCount(tail, Space))
    IN  IF t = << >> THEN << >> ELSE SubSeq(t, 2, Len(t) - 1)

\* referenceLinks[match[1]] = { url: match[2], title: match[3] || "" }
extractLinkDefinition(table, line) ==
    IF isLinkDefinition(line)
    THEN [id \in DOMAIN table \cup {LinkId(line)} |->
             IF id = LinkId(line)
             THEN [url |-> LinkUrl(line), title |-> LinkTitle(line)]
             ELSE table[id]]
    ELSE table

(***************************************************************************)
(* MarkdownParser.js: the insert functions, as the writes they make        *)
(***************************************************************************)
\* insertCodeBlock: body.appendParagraph(code.trim())
insertCodeBlock(src, code) == << TextOp("CodeBlock", src, Trim(code)) >>

\* insertHeading: level = line.match(/^#+/)[0].length,
\*                text  = line.replace(/^#+\s/, '')
insertHeading(n, line) ==
    LET level == LeadingCount(line, {"#"})
    IN  << Op("Heading", << n >>, Drop(line, level + 1), level, FALSE, << >>) >>

\* getListDetails(line).indentLevel, in half levels: the number of leading
\* blanks (the code divides it by 2; only comparisons are made on it)
IndentOf(line) == LeadingCount(line, Space)

\* getListDetails(line).isOrdered: /^\s*\d+\./
IsOrdered(line) ==
    LET s == Drop(line, LeadingCount(line, Space))
        d == LeadingCount(s, Digit)
    IN  d >= 1 /\ Len(s) > d /\ s[d + 1] = "."

\* line.trim().replace(/^(\-|\*|\+|\d+\.)\s/, '')
ListText(line) ==
    LET t == Trim(line)
        m == MarkerLen(t)
    IN  IF m >= 1 /\ Len(t) > m /\ t[m + 1] \in Space THEN Drop(t, m + 1) ELSE t

\* while (stack.length > 0 && top.indentLevel >= indentLevel) stack.pop()
RECURSIVE PopDeeper(_, _)
PopDeeper(stack, indent) ==
    IF Len(stack) > 0 /\ stack[Len(stack)] >= indent
    THEN PopDeeper(SubSeq(stack, 1, Len(stack) - 1), indent)
    ELSE stack

\* the forEach of insertList over the lines of its argument: the writes made
\* from stack `stack` and level `level` on
RECURSIVE ListLoop(_, _, _, _)
ListLoop(ls, stack, level, n) ==
    IF Len(ls) = 0 THEN << >>
    ELSE IF ~isList(ls[1]) THEN ListLoop(Tail(ls), stack, level, n)
    ELSE LET kept  == PopDeeper(stack, IndentOf(ls[1]))
             lvl   == level - (Len(stack) - Len(kept))
             item  == Op("ListItem", << n >>, ListText(ls[1]), lvl, IsOrdered(ls[1]), << >>)
             stack2 == Append(kept, IndentOf(ls[1]))
         IN  << item >> \o ListLoop(Tail(ls), stack2, Len(stack2), n)

\* the listItemStack insertList starts from: a new empty array on every call
InitialListStack == << >>

\* insertList(body, line)
insertList(n, line) ==
    ListLoop(Split(line, "\n"), InitialListStack, Len(InitialListStack), n)

\* /:-+:/.test(cell)
HasCenterMark(cell) ==
    \E a \in 1..Len(cell) : \E b \in (a + 2)..Len(cell) :
        cell[a] = ":" /\ cell[b] = ":" /\ \A k \in (a + 1)..(b - 1) : cell[k] = "-"

\* /-+:/.test(cell)
HasRightMark(cell) ==
    \E a \in 1..(Len(cell) - 1) : cell[a] = "-" /\ cell[a + 1] = ":"

\* AlignmentOf with its two tests in the other order
AlignmentOfRightFirst(cell) ==
    IF HasRightMark(cell) THEN "RIGHT"
    ELSE IF HasCenterMark(cell) THEN "CENTER"
    ELSE "LEFT"

\* the alignments.map callback of insertTable
AlignmentOf(cell) ==
    IF HasCenterMark(cell) THEN "CENTER"
    ELSE IF HasRightMark(cell) THEN "RIGHT"
    ELSE "LEFT"

\* alignments[columnIndex] || DocumentApp.HorizontalAlignment.LEFT
AlignmentAt(alignments, col) ==
    IF col <= Len(alignments) THEN alignments[col] ELSE "LEFT"

NonBlank(cell) == Trim(cell) # << >>

NonEmpty(cell) == cell # << >>

\* insertTable(body, tableLines): nothing for fewer than 3 lines, else one
\* table of a header row and the body rows
insertTable(buf) ==
    IF Len(buf) < 3 THEN << >>
    ELSE LET headerLine == SelectSeq(Split(buf[1].text, "|"), NonBlank)
             alignLine  == SelectSeq(Split(buf[2].text, "|"), NonBlank)
             alignments == [c \in 1..Len(alignLine) |-> AlignmentOf(alignLine[c])]
             Row(cells) == [c \in 1..Len(cells) |->
                               [text |-> Trim(cells[c]), align |-> AlignmentAt(alignments, c)]]
             body == [r \in 1..(Len(buf) - 2) |->
                         Row(SelectSeq(Split(buf[r + 2].text, "|"), NonEmpty))]
         IN  << Op("Table", Sources(buf), << >>, 0, FALSE, << Row(headerLine) >> \o body) >>

\* insertBlockquote(body, blockquoteLines): one paragraph of the joined lines
insertBlockquote(src, quoteLines) ==
    << TextOp("Blockquote", src, Join(quoteLines, << "\n" >>)) >>

\* line.replace(/^>\s?/, '')
Demarked(line) ==
    IF Len(line) >= 1 /\ line[1] = ">"
    THEN IF Len(line) >= 2 /\ line[2] \in Space THEN Drop(line, 2) ELSE Drop(line, 1)
    ELSE line

(***************************************************************************)
(* The inputs: every text of at most MaxLines lines of the catalogue, and   *)
(* the scenarios                                                           *)
(***************************************************************************)
\* backtick backtick backtick 
LFence == << Backtick, Backtick, Backtick >>

\* # T
LHeading == << "#", " ", "T" >>

\* **b**
LBold == << "*", "*", "b", "*", "*" >>

\* | 1 |
LRow == << "|", " ", "1", " ", "|" >>

\* |:-:|
LSep == << "|", ":", "-", ":", "|" >>

\* > q
LQuote == << ">", " ", "q" >>

\* (the empty line)
LBlank == << >>

\* - a
LItem == << "-", " ", "a" >>

\*   - b
LSubItem == << " ", " ", "-", " ", "b" >>

\* ---
LRule == << "-", "-", "-" >>

\* ![i](u)
LImage == << "!", "[", "i", "]", "(", "u", ")" >>

\* [^a]: n
LFootDef == << "[", "^", "a", "]", ":", " ", "n" >>

\* t[^a]
LFootRef == << "t", "[", "^", "a", "]" >>

\*  x
LIndented == << " ", "x" >>

\* # Title
LTitle == << "#", " ", "T", "i", "t", "l", "e" >>

\* | H1 | H2 |
LH1H2 == << "|", " ", "H", "1", " ", "|", " ", "H", "2", " ", "|" >>

\* |---|---|
LSep2 == << "|", "-", "-", "-", "|", "-", "-", "-", "|" >>

\* | 1 | 2 |
LRow12 == << "|", " ", "1", " ", "|", " ", "2", " ", "|" >>

\*     - c
LItemC == << " ", " ", " ", " ", "-", " ", "c" >>

\* 1. d
LNum == << "1", ".", " ", "d" >>

\* | H |
LHead1 == << "|", " ", "H", " ", "|" >>

\* |-:|
LSepRight == << "|", "-", ":", "|" >>

\* |:-|
LSepLeft == << "|", ":", "-", "|" >>

\* |:-:|-:|
LSepMixed == << "|", ":", "-", ":", "|", "-", ":", "|" >>

\* |-|
LSepPlain == << "|", "-", "|" >>

\* code
LCode == << "c", "o", "d", "e" >>

\* ***x***
LBoldItalic == << "*", "*", "*", "x", "*", "*", "*" >>

\* **bold** and *italic*
LBoldAndItalic ==
    << "*", "*", "b", "o", "l", "d", "*", "*", " ", "a", "n", "d", " ",
       "*", "i", "t", "a", "l", "i", "c", "*" >>

\* - ***x***
LItemBoldItalic == << "-", " ", "*", "*", "*", "x", "*", "*", "*" >>

\* # ![i](u)
LHeadingImage == << "#", " ", "!", "[", "i", "]", "(", "u", ")" >>

\* - ![i](u)
LItemImage == << "-", " ", "!", "[", "i", "]", "(", "u", ")" >>

\* [^a]: m
LFootDef2 == << "[", "^", "a", "]", ":", " ", "m" >>

\* [a]: u
LLinkDef == << "[", "a", "]", ":", " ", "u" >>

\* [a]: v "t"
LLinkDef2 == << "[", "a", "]", ":", " ", "v", " ", "\"", "t", "\"" >>

\* | 1 || 2 |
LRowGap == << "|", " ", "1", " ", "|", "|", " ", "2", " ", "|" >>

Catalogue ==
    { LFence, LHeading, LBold, LRow, LSep, LQuote, LBlank, LItem, LSubItem, LRule,
      LImage, LFootDef, LFootRef, LIndented }

CatalogueInputs == UNION { [1..n -> Catalogue] : n \in 1..MaxLines }

\* the end-to-end scenario
EndToEnd == << LTitle, LItem, LSubItem, LH1H2, LSep2, LRow12 >>

\* list items indented 0, 2, 4, 2, 0 blanks
Nested == << LItem, LSubItem, LItemC, LSubItem, LNum >>

\* an opening fence, the line code, and the empty line after the last newline
Unclosed == << LFence, LCode, LBlank >>

\* tables of a header, a separator and a body row, alone or before a heading
TableInputs ==
    LET three == { << h, sp, r >> : h \in {LHead1, LH1H2},
                                     sp \in {LSep, LSepRight, LSepLeft, LSepPlain,
                                             LSepMixed, LSep2},
                                     r \in {LRow, LRow12, LRowGap} }
    IN  three \cup { t \o << LHeading >> : t \in three }
              \cup { t \o << LFootRef, LHeading >> : t \in three }

\* lines with inline emphasis, alone or after a heading
EmphasisInputs ==
    LET one == { << l >> : l \in {LBoldItalic, LBoldAndItalic, LItemBoldItalic} }
    IN  one \cup { << LHeading >> \o t : t \in one }

\* lines that match the pattern of an image and that of a heading or of a
\* list item
OverlapInputs ==
    { << LHeadingImage >>, << LItemImage >>, << LHeading, LItemImage >>,
      << LItem, LHeadingImage >> }

\* definitions of the footnote a and of the link a, some of them repeated
DefinitionInputs ==
    UNION { [1..n -> {LFootDef, LFootDef2, LLinkDef, LLinkDef2}] : n \in 2..MaxLines }

\* ###### T
LHeading6 == << "#", "#", "#", "#", "#", "#", " ", "T" >>

\* ####### T
LHeading7 == << "#", "#", "#", "#", "#", "#", "#", " ", "T" >>

\* headings of the deepest level and one mark beyond it
HeadingInputs ==
    { << LHeading6 >>, << LHeading7 >>, << LHeading, LHeading7 >>, << LHeading7, LBold >> }

\* ----
LRule4 == << "-", "-", "-", "-" >>

\* ---x
LRuleText == << "-", "-", "-", "x" >>

\* lines that start with three hyphens
RuleInputs ==
    { << LRule4 >>, << LRuleText >>, << LHeading, LRuleText >>, << LRuleText, LRule >> }

Inputs ==
    CatalogueInputs \cup TableInputs \cup EmphasisInputs \cup OverlapInputs
        \cup DefinitionInputs \cup HeadingInputs \cup RuleInputs
        \cup { EndToEnd, Nested, Unclosed }

(***************************************************************************)
(* parseAndInsertMarkdown, buffered version (MarkdownParser.js 69-176)     *)
(***************************************************************************)
NoTable == [id \in {} |-> << >>]

Init ==
    /\ lines \in Inputs
    /\ pc = "cursor"
    /\ i = 1
    /\ ops = << >>
    /\ err = "none"
    /\ inTable = FALSE /\ tableLines = << >>
    /\ inBlockquote = FALSE /\ blockquoteLines = << >>
    /\ inCodeBlock = FALSE /\ codeBlockText = << >>
    /\ codeSrc = << >>
    /\ footnotes = NoTable
    /\ referenceLinks = NoTable
    /\ ctxCodeBlockText = "undefined"
    /\ linkLastIndex = 0
    /\ returned = << >>

\* the text handed to parseAndInsertMarkdown
MarkdownText == Join(lines, << "\n" >>)

\* the write of lines 82-96: with a cursor whose insertText returns an element
\* ("element") the text is inserted there; when it returns null ("null") or
\* there is no cursor ("none") the text is appended as a paragraph
CursorWrites(cursor) ==
    IF cursor = "element"
    THEN << TextOp("InsertText", << >>, MarkdownText) >>
    ELSE << TextOp("Paragraph", << >>, MarkdownText) >>

\* lines 82-96: the whole text is written at the cursor, or appended
CursorInsert ==
    /\ pc = "cursor"
    /\ \E cursor \in {"element", "null", "none"} : ops' = ops \o CursorWrites(cursor)
    /\ pc' = "collect"
    /\ UNCHANGED << lines, i, err, inTable, tableLines, inBlockquote, blockquoteLines,
                    inCodeBlock, codeBlockText, codeSrc, footnotes, referenceLinks,
                    ctxCodeBlockText, linkLastIndex, returned >>

\* lines 102-105: the first pass, one line
CollectLine ==
    /\ pc = "collect"
    /\ footnotes' = extractFootnoteDefinition(footnotes, lines[i])
    /\ referenceLinks' = extractLinkDefinition(referenceLinks, lines[i])
    /\ IF i = Len(lines) THEN pc' = "parse" /\ i' = 1
                         ELSE pc' = pc /\ i' = i + 1
    /\ UNCHANGED << lines, ops, err, inTable, tableLines, inBlockquote, blockquoteLines,
                    inCodeBlock, codeBlockText, codeSrc, ctxCodeBlockText, linkLastIndex, returned >>

\* Branch with the test of inCodeBlock before the test of the fence
BranchCodeFirst(line) ==
    CASE inCodeBlock                          -> "code"
      [] OTHER -> CASE StartsWith(line, FenceMark) -> "fence"
      [] OTHER -> CASE StartsWith(line, RuleMark) -> "rule"
      [] OTHER -> CASE isImage(line)          -> "image"
      [] OTHER -> CASE isBlockquote(line)     -> "blockquote"
      [] OTHER -> CASE Trim(line) = << >> /\ inBlockquote -> "quoteEnd"
      [] OTHER -> CASE isHeading(line)        -> "heading"
      [] OTHER -> CASE isList(line)           -> "list"
      [] OTHER -> CASE isTable(line) /\ ~inTable -> "tableStart"
      [] OTHER -> CASE ~isTable(line) /\ inTable -> "tableEnd"
      [] OTHER -> CASE isTable(line) /\ inTable  -> "tableRow"
      [] OTHER -> "link"

\* the branch of the if/else chain of lines 109-163 that a line takes
Branch(line) ==
    CASE StartsWith(line, FenceMark)          -> "fence"
      [] OTHER -> CASE inCodeBlock            -> "code"
      [] OTHER -> CASE StartsWith(line, RuleMark) -> "rule"
      [] OTHER -> CASE isImage(line)          -> "image"
      [] OTHER -> CASE isBlockquote(line)     -> "blockquote"
      [] OTHER -> CASE Trim(line) = << >> /\ inBlockquote -> "quoteEnd"
      [] OTHER -> CASE isHeading(line)        -> "heading"
      [] OTHER -> CASE isList(line)           -> "list"
      [] OTHER -> CASE isTable(line) /\ ~inTable -> "tableStart"
      [] OTHER -> CASE ~isTable(line) /\ inTable -> "tableEnd"
      [] OTHER -> CASE isTable(line) /\ inTable  -> "tableRow"
      [] OTHER -> "link"

AtLine(branch) == pc = "parse" /\ i <= Len(lines) /\ Branch(lines[i]) = branch

NextLine == i' = i + 1 /\ UNCHANGED << lines, pc, err >>

\* a ReferenceError or TypeError ends the conversion
Raise(e) == pc' = "failed" /\ err' = e /\ UNCHANGED << lines, i >>

\* lines 109-116
Fence ==
    /\ AtLine("fence")
    /\ IF inCodeBlock
       THEN /\ ops' = ops \o insertCodeBlock(codeSrc, Trim(codeBlockText))
            /\ codeBlockText' = << >>
            /\ codeSrc' = << >>
            /\ inCodeBlock' = FALSE
       ELSE /\ inCodeBlock' = TRUE
            /\ codeSrc' = codeSrc \o << i >>
            /\ UNCHANGED << ops, codeBlockText >>
    /\ NextLine
    /\ UNCHANGED << inTable, tableLines, inBlockquote, blockquoteLines, footnotes,
                    referenceLinks, ctxCodeBlockText, linkLastIndex, returned >>

\* lines 117-118
CodeContent ==
    /\ AtLine("code")
    /\ codeBlockText' = codeBlockText \o lines[i] \o << "\n" >>
    /\ codeSrc' = codeSrc \o << i >>
    /\ NextLine
    /\ UNCHANGED << ops, inTable, tableLines, inBlockquote, blockquoteLines, inCodeBlock,
                    footnotes, referenceLinks, ctxCodeBlockText, linkLastIndex, returned >>

\* lines 119-120
HorizontalRule ==
    /\ AtLine("rule")
    /\ ops' = Append(ops, TextOp("HorizontalRule", << i >>, << >>))
    /\ NextLine
    /\ UNCHANGED << inTable, tableLines, inBlockquote, blockquoteLines, inCodeBlock,
                    codeBlockText, codeSrc, footnotes, referenceLinks, ctxCodeBlockText,
                    linkLastIndex, returned >>

\* insertImage: the image is appended unless fetching or appending it throws
insertImage(n, url, fetched) ==
    IF fetched THEN << TextOp("Image", << n >>, url) >> ELSE << >>

\* the image branch with an insertImage that lets the error of a failed
\* fetch through
ImageUncaught ==
    /\ AtLine("image")
    /\ IF inBlockquote
       THEN /\ blockquoteLines' = Append(blockquoteLines, Buffered(i, lines[i]))
            /\ ops' = ops
            /\ NextLine
       ELSE /\ blockquoteLines' = blockquoteLines
            /\ IF extractImageUrl(lines[i]) # << >>
               THEN \E fetched \in BOOLEAN :
                        IF fetched
                        THEN /\ ops' = ops \o insertImage(i, extractImageUrl(lines[i]), TRUE)
                             /\ NextLine
                        ELSE /\ ops' = ops
                             /\ Raise("Exception: fetch failed")
               ELSE ops' = ops /\ NextLine
    /\ UNCHANGED << inTable, tableLines, inBlockquote, inCodeBlock, codeBlockText, codeSrc,
                    footnotes, referenceLinks, ctxCodeBlockText, linkLastIndex, returned >>

\* lines 121-129
Image ==
    /\ AtLine("image")
    /\ IF inBlockquote
       THEN /\ blockquoteLines' = Append(blockquoteLines, Buffered(i, lines[i]))
            /\ ops' = ops
       ELSE /\ blockquoteLines' = blockquoteLines
            /\ IF extractImageUrl(lines[i]) # << >>
               THEN \E fetched \in BOOLEAN :
                        ops' = ops \o insertImage(i, extractImageUrl(lines[i]), fetched)
               ELSE ops' = ops
    /\ NextLine
    /\ UNCHANGED << inTable, tableLines, inBlockquote, inCodeBlock, codeBlockText, codeSrc,
                    footnotes, referenceLinks, ctxCodeBlockText, linkLastIndex, returned >>

\* lines 130-132
Blockquote ==
    /\ AtLine("blockquote")
    /\ inBlockquote' = TRUE
    /\ blockquoteLines' = Append(blockquoteLines, Buffered(i, Demarked(lines[i])))
    /\ NextLine
    /\ UNCHANGED << ops, inTable, tableLines, inCodeBlock, codeBlockText, codeSrc,
                    footnotes, referenceLinks, ctxCodeBlockText, linkLastIndex, returned >>

\* lines 133-136: processBlockquote is defined nowhere, so evaluating the
\* argument of insertBlockquote throws before anything is written or reset
BlockquoteEnd ==
    /\ AtLine("quoteEnd")
    /\ Raise("ReferenceError: processBlockquote is not defined")
    /\ UNCHANGED << ops, inTable, tableLines, inBlockquote, blockquoteLines, inCodeBlock,
                    codeBlockText, codeSrc, footnotes, referenceLinks, ctxCodeBlockText,
                    linkLastIndex, returned >>

\* lines 137-138
Heading ==
    /\ AtLine("heading")
    /\ ops' = ops \o insertHeading(i, lines[i])
    /\ NextLine
    /\ UNCHANGED << inTable, tableLines, inBlockquote, blockquoteLines, inCodeBlock,
                    codeBlockText, codeSrc, footnotes, referenceLinks, ctxCodeBlockText,
                    linkLastIndex, returned >>

\* lines 139-140
List ==
    /\ AtLine("list")
    /\ ops' = ops \o insertList(i, lines[i])
    /\ NextLine
    /\ UNCHANGED << inTable, tableLines, inBlockquote, blockquoteLines, inCodeBlock,
                    codeBlockText, codeSrc, footnotes, referenceLinks, ctxCodeBlockText,
                    linkLastIndex, returned >>

\* lines 141-143
TableStart ==
    /\ AtLine("tableStart")
    /\ inTable' = TRUE
    /\ tableLines' = << Buffered(i, lines[i]) >>
    /\ NextLine
    /\ UNCHANGED << ops, inBlockquote, blockquoteLines, inCodeBlock, codeBlockText, codeSrc,
                    footnotes, referenceLinks, ctxCodeBlockText, linkLastIndex, returned >>

\* lines 144-147: the line that ends the table is not looked at again
TableEnd ==
    /\ AtLine("tableEnd")
    /\ ops' = ops \o insertTable(tableLines)
    /\ tableLines' = << >>
    /\ inTable' = FALSE
    /\ NextLine
    /\ UNCHANGED << inBlockquote, blockquoteLines, inCodeBlock, codeBlockText, codeSrc,
                    footnotes, referenceLinks, ctxCodeBlockText, linkLastIndex, returned >>

\* lines 148-149
TableRow ==
    /\ AtLine("tableRow")
    /\ tableLines' = Append(tableLines, Buffered(i, lines[i]))
    /\ NextLine
    /\ UNCHANGED << ops, inTable, inBlockquote, blockquoteLines, inCodeBlock, codeBlockText,
                    codeSrc, footnotes, referenceLinks, ctxCodeBlockText, linkLastIndex, returned >>

\* line 150: isLink is defined nowhere, so the test itself throws and the
\* branches of lines 151-163 are never entered
LinkTest ==
    /\ AtLine("link")
    /\ Raise("ReferenceError: isLink is not defined")
    /\ UNCHANGED << ops, inTable, tableLines, inBlockquote, blockquoteLines, inCodeBlock,
                    codeBlockText, codeSrc, footnotes, referenceLinks, ctxCodeBlockText,
                    linkLastIndex, returned >>

\* lines 166-175: the writes of the finalization, and the error that ends it.
\* An open blockquote throws (processBlockquote) before an open code block
\* is looked at.
FinalTable == IF inTable THEN insertTable(tableLines) ELSE << >>

FinalCode == IF inCodeBlock THEN insertCodeBlock(codeSrc, Trim(codeBlockText)) ELSE << >>

Finalize ==
    /\ pc = "parse" /\ i > Len(lines)
    /\ IF inBlockquote
       THEN /\ ops' = ops \o FinalTable
            /\ pc' = "failed"
            /\ err' = "ReferenceError: processBlockquote is not defined"
       ELSE /\ ops' = ops \o FinalTable \o FinalCode
            /\ pc' = "done"
            /\ err' = err
    /\ UNCHANGED << lines, i, inTable, tableLines, inBlockquote, blockquoteLines,
                    inCodeBlock, codeBlockText, codeSrc, footnotes, referenceLinks,
                    ctxCodeBlockText, linkLastIndex, returned >>

(***************************************************************************)
(* MarkdownUtils.js: the regex table and determineLineType                 *)
(***************************************************************************)
\* regex.heading: /^(#+)\s+(.*)/
regexHeading(line) ==
    LET n == LeadingCount(line, {"#"})
    IN  n >= 1 /\ Len(line) > n /\ line[n + 1] \in Space

\* regex.listItem: /^(\s*)([*\-+]|\d+\.)\s+(.*)/
regexListItem(line) == isList(line)

\* regex.blockquote: /^>\s*(.*)/
regexBlockquote(line) == Len(line) >= 1 /\ line[1] = ">"

\* regex.codeBlock: /^```/
regexCodeBlock(line) == StartsWith(line, FenceMark)

\* regex.horizontalRule: /^-{3,}$/
regexHorizontalRule(line) == Len(line) >= 3 /\ Range(line) = {"-"}

\* regex.table: /^\|(.+)\|$/
regexTable(line) == Len(line) >= 3 /\ line[1] = "|" /\ line[Len(line)] = "|"

\* regex.tableSeparator: /^\|(:?-+:?)+\|$/ : between the bars only dashes and
\* colons, every colon next to a dash
regexTableSeparator(line) ==
    /\ regexTable(line)
    /\ \A k \in 2..(Len(line) - 1) :
          \/ line[k] = "-"
          \/ line[k] = ":" /\ (line[k - 1] = "-" \/ line[k + 1] = "-")

\* regex.footnote: /^\[\^(\w+)\]:\s*(.*)/
regexFootnote(line) == isFootnoteDefinition(line)

\* the end of the leftmost match of /\[([^\]]+)\]\(([^)]+)\)/ that starts at
\* index `from` (0-based) or later; 0 when there is none
LinkMatchEnd(line, from) ==
    LET ends(a) == { c \in (a + 5)..Len(line) :
                       \E b \in (a + 2)..(c - 3) :
                          /\ line[a] = "[" /\ line[b] = "]" /\ line[b + 1] = "("
                          /\ line[c] = ")"
                          /\ \A k \in (a + 1)..(b - 1) : line[k] # "]"
                          /\ \A k \in (b + 2)..(c - 1) : line[k] # ")" }
        starts == { a \in (from + 1)..Len(line) : ends(a) # {} }
    IN  IF starts = {} THEN 0
        ELSE LET a == CHOOSE a \in starts : \A x \in starts : a <= x
             IN  CHOOSE c \in ends(a) : \A x \in ends(a) : c <= x

\* regex.link.test(line): regex.link has the g flag, so the search starts at
\* regex.link.lastIndex and leaves the end of the match (or 0) there
regexLinkTest(line, lastIndex) ==
    LET e == IF lastIndex > Len(line) THEN 0 ELSE LinkMatchEnd(line, lastIndex)
    IN  [found |-> e # 0, lastIndex |-> e]

\* determineLineType that also records in the context the list and the
\* table it has seen
determineLineTypeTracking(line, context, lastIndex) ==
    LET T(type, ctx, li) == [type |-> type, context |-> ctx, lastIndex |-> li]
    IN  CASE context.inCodeBlock /\ regexCodeBlock(line)
                   -> T("codeBlockEnd", [context EXCEPT !.inCodeBlock = FALSE], lastIndex)
          [] context.inCodeBlock /\ ~regexCodeBlock(line)
                   -> T("codeBlockContent", context, lastIndex)
          [] OTHER -> CASE regexCodeBlock(line)
                   -> T("codeBlockStart", [context EXCEPT !.inCodeBlock = TRUE], lastIndex)
          [] OTHER -> CASE regexHeading(line)        -> T("heading", context, lastIndex)
          [] OTHER -> CASE regexListItem(line)       -> T("listItem", [context EXCEPT !.inList = TRUE], lastIndex)
          [] OTHER -> CASE regexBlockquote(line)     -> T("blockquote", context, lastIndex)
          [] OTHER -> CASE regexHorizontalRule(line) -> T("horizontalRule", context, lastIndex)
          [] OTHER -> CASE regexTable(line) \/ regexTableSeparator(line)
                                                     -> T("table", [context EXCEPT !.inTable = TRUE], lastIndex)
          [] OTHER -> CASE regexFootnote(line)       -> T("footnote", context, lastIndex)
          [] OTHER -> LET t == regexLinkTest(line, lastIndex)
                      IN  IF t.found THEN T("link", context, t.lastIndex)
                                     ELSE T("paragraph", context, t.lastIndex)

\* determineLineType(line, context): the type, the context after the call
\* and what the call leaves in regex.link.lastIndex
determineLineType(line, context, lastIndex) ==
    LET T(type, ctx, li) == [type |-> type, context |-> ctx, lastIndex |-> li]
    IN  CASE context.inCodeBlock /\ regexCodeBlock(line)
                   -> T("codeBlockEnd", [context EXCEPT !.inCodeBlock = FALSE], lastIndex)
          [] context.inCodeBlock /\ ~regexCodeBlock(line)
                   -> T("codeBlockContent", context, lastIndex)
          [] OTHER -> CASE regexCodeBlock(line)
                   -> T("codeBlockStart", [context EXCEPT !.inCodeBlock = TRUE], lastIndex)
          [] OTHER -> CASE regexHeading(line)        -> T("heading", context, lastIndex)
          [] OTHER -> CASE regexListItem(line)       -> T("listItem", context, lastIndex)
          [] OTHER -> CASE regexBlockquote(line)     -> T("blockquote", context, lastIndex)
          [] OTHER -> CASE regexHorizontalRule(line) -> T("horizontalRule", context, lastIndex)
          [] OTHER -> CASE regexTable(line) \/ regexTableSeparator(line)
                                                     -> T("table", context, lastIndex)
          [] OTHER -> CASE regexFootnote(line)       -> T("footnote", context, lastIndex)
          [] OTHER -> LET t == regexLinkTest(line, lastIndex)
                      IN  IF t.found THEN T("link", context, t.lastIndex)
                                     ELSE T("paragraph", context, t.lastIndex)

(***************************************************************************)
(* MarkdownUtils.js: inline formatting                                     *)
(***************************************************************************)
\* the opening delimiters of regex.boldItalic, bold, italic, strikethrough
BoldItalicMarks == { << "*", "*", "*" >>, << "_", "_", "_" >> }

BoldMarks == { << "*", "*" >>, << "_", "_" >> }

ItalicMarks == { << "*" >>, << "_" >> }

StrikeMarks == { << "~", "~" >> }

\* /(d)(.*?)\1/ tried at position p, for the delimiters D of length n: the
\* position of the nearest closing delimiter, 0 when there is no match at p
MatchAt(text, D, n, p) ==
    LET open   == SubSeq(text, p, p + n - 1)
        closes == { q \in (p + n)..(Len(text) - n + 1) : SubSeq(text, q, q + n - 1) = open }
    IN  IF p + n - 1 <= Len(text) /\ open \in D /\ closes # {}
        THEN CHOOSE q \in closes : \A x \in closes : q <= x
        ELSE 0

\* text.matchAll(/(d)(.*?)\1/g): the text between the delimiters of every
\* match, from position p on
RECURSIVE EmphasisMatches(_, _, _, _)
EmphasisMatches(text, D, n, p) ==
    IF p > Len(text) THEN << >>
    ELSE LET q == MatchAt(text, D, n, p)
         IN  IF q # 0
             THEN << SubSeq(text, p + n, q - 1) >> \o EmphasisMatches(text, D, n, q + n)
             ELSE EmphasisMatches(text, D, n, p + 1)

\* text.replace(/(d)(.*?)\1/g, (match, p1, p2) => p2), from position p on
RECURSIVE ReplaceEmphasis(_, _, _, _)
ReplaceEmphasis(text, D, n, p) ==
    IF p > Len(text) THEN << >>
    ELSE LET q == MatchAt(text, D, n, p)
         IN  IF q # 0
             THEN SubSeq(text, p + n, q - 1) \o ReplaceEmphasis(text, D, n, q + n)
             ELSE << text[p] >> \o ReplaceEmphasis(text, D, n, p + 1)

\* String.prototype.indexOf (0-based, -1 when absent)
IndexOf(full, sub) ==
    LET at == { k \in 0..(Len(full) - Len(sub)) : SubSeq(full, k + 1, k + Len(sub)) = sub }
    IN  IF at = {} THEN -1 ELSE CHOOSE k \in at : \A x \in at : k <= x

\* calculateMatchIndices(fullText, matchText), as the call
\* set<attrs>(startIndex, endIndex, true) made with it
calculateMatchIndices(fullText, matchText, attrs) ==
    [attrs |-> attrs, start |-> IndexOf(fullText, matchText),
     end |-> IndexOf(fullText, matchText) + Len(matchText) - 1]

\* one forEach of applyBasicFormatting: a call for every match
RangeCalls(text, D, n, attrs) ==
    LET ms == EmphasisMatches(text, D, n, 1)
    IN  [k \in 1..Len(ms) |-> calculateMatchIndices(text, ms[k], attrs)]

\* applyBasicFormatting(element, text), element holding text: the calls it
\* makes on the element, in order
applyBasicFormatting(text) ==
    RangeCalls(text, BoldItalicMarks, 3, {"bold", "italic"})
        \o RangeCalls(text, BoldMarks, 2, {"bold"})
        \o RangeCalls(text, ItalicMarks, 1, {"italic"})
        \o RangeCalls(text, StrikeMarks, 2, {"strike"})

\* a range the host document may refuse: it ends before it starts, or
\* starts before the text
BadRange(call) == call.end < call.start \/ call.start < 0

HasBadRange(calls) == \E c \in 1..Len(calls) : BadRange(calls[c])

\* the calls that take effect: all of them when the host lets a bad range
\* pass, those before the first bad one when it throws on it
Applied(calls, rejects) ==
    IF rejects /\ HasBadRange(calls)
    THEN SubSeq(calls, 1, (CHOOSE c \in 1..Len(calls) :
                              BadRange(calls[c]) /\ \A j \in 1..(c - 1) : ~BadRange(calls[j])) - 1)
    ELSE calls

\* the attributes the calls leave on each of the len characters of an element
StylesOf(len, calls) ==
    [k \in 1..len |->
        UNION { calls[c].attrs : c \in { c \in 1..Len(calls) :
                   ~BadRange(calls[c]) /\ calls[c].start <= k - 1 /\ k - 1 <= calls[c].end } }]

\* an element with the calls made on it
Styled(op, calls) == [op EXCEPT !.styles = StylesOf(Len(op.text), calls)]

\* regex.link tried at position a: the position of the "]" that closes the
\* link text and of the ")" that closes the url, << >> when there is no match
LinkAt(text, a) ==
    LET bs == { b \in (a + 2)..Len(text) :
                  text[b] = "]" /\ \A k \in (a + 1)..(b - 1) : text[k] # "]" }
        cs == { c \in (a + 5)..Len(text) :
                  \E b \in bs : /\ b + 3 <= c /\ text[b + 1] = "(" /\ text[c] = ")"
                                 /\ \A k \in (b + 2)..(c - 1) : text[k] # ")" }
    IN  IF text[a] = "[" /\ cs # {}
        THEN << CHOOSE b \in bs : TRUE, CHOOSE c \in cs : TRUE >>
        ELSE << >>

\* the matches of regex.link in text from position p on: [linkText, url]
RECURSIVE LinkMatches(_, _)
LinkMatches(text, p) ==
    IF p > Len(text) THEN << >>
    ELSE LET m == LinkAt(text, p)
         IN  IF m # << >>
             THEN << [text |-> SubSeq(text, p + 1, m[1] - 1),
                      url |-> SubSeq(text, m[1] + 2, m[2] - 1)] >>
                     \o LinkMatches(text, m[2] + 1)
             ELSE LinkMatches(text, p + 1)

\* a replace of insertFormattedText: the callback sets the attributes on the
\* whole element for every match
WholeCalls(text, t, D, n, attrs) ==
    [k \in 1..Len(EmphasisMatches(t, D, n, 1)) |->
        [attrs |-> attrs, start |-> 0, end |-> Len(text) - 1]]

\* insertFormattedText: the calls made on the element holding text; each
\* replace works on the text the one before left
formattedTextCalls(text) ==
    LET t1 == ReplaceEmphasis(text, BoldItalicMarks, 3, 1)
        t2 == ReplaceEmphasis(t1, BoldMarks, 2, 1)
        t3 == ReplaceEmphasis(t2, ItalicMarks, 1, 1)
        t4 == ReplaceEmphasis(t3, StrikeMarks, 2, 1)
        ls == LinkMatches(t4, 1)
    IN  WholeCalls(text, text, BoldItalicMarks, 3, {"bold", "italic"})
            \o WholeCalls(text, t1, BoldMarks, 2, {"bold"})
            \o WholeCalls(text, t2, ItalicMarks, 1, {"italic"})
            \o WholeCalls(text, t3, StrikeMarks, 2, {"strike"})
            \o [k \in 1..Len(ls) |-> calculateMatchIndices(text, ls[k].text, {"link"})]

(***************************************************************************)
(* parseAndInsertMarkdown, context version (MarkdownParser.js 7-56).  The  *)
(* switch has a case for each of 'heading', 'paragraph', 'list', 'table',  *)
(* 'blockquote', 'codeBlock', 'horizontalRule'; determineLineType never    *)
(* returns 'list' or 'codeBlock', so list items and everything of a code   *)
(* block go to the default case.                                           *)
(***************************************************************************)
InitCtx == Init /\ pc = "cursor"

\* lines 8-15: the context is created, nothing is written
CtxStart ==
    /\ pc = "cursor"
    /\ pc' = "dispatch"
    /\ UNCHANGED << lines, i, ops, err, inTable, tableLines, inBlockquote, blockquoteLines,
                    inCodeBlock, codeBlockText, codeSrc, footnotes, referenceLinks,
                    ctxCodeBlockText, linkLastIndex, returned >>

\* the context object: the fields of line 15 and codeBlockText, which
\* finalizeOpenElements reads
Context ==
    [inList |-> FALSE, listLevel |-> 0, inTable |-> inTable, inBlockquote |-> inBlockquote,
     inCodeBlock |-> inCodeBlock, codeBlockText |-> ctxCodeBlockText]

LineType == determineLineType(lines[i], Context, linkLastIndex)

\* line 19: the context is the one determineLineType leaves
CtxClassified ==
    /\ inCodeBlock' = LineType.context.inCodeBlock
    /\ inTable' = LineType.context.inTable
    /\ inBlockquote' = LineType.context.inBlockquote
    /\ ctxCodeBlockText' = LineType.context.codeBlockText

CtxAt(types) == pc = "dispatch" /\ i <= Len(lines) /\ LineType.type \in types

\* what every case of the switch leaves alone
CtxFrame ==
    UNCHANGED << lines, tableLines, blockquoteLines, codeBlockText, codeSrc, footnotes,
                 referenceLinks, returned >>

\* match[2] of regex.heading
ctxHeadingText(line) ==
    LET rest == Drop(line, LeadingCount(line, {"#"}))
    IN  Drop(rest, LeadingCount(rest, Space))

\* MarkdownUtils.insertHeading: level = match[1].length, text = match[2],
\* then applyBasicFormatting; rejects: the host throws on a bad range
ctxInsertHeading(n, line, rejects) ==
    LET text == ctxHeadingText(line)
    IN  << Styled(Op("Heading", << n >>, text, LeadingCount(line, {"#"}), FALSE, << >>),
                  Applied(applyBasicFormatting(text), rejects)) >>

\* MarkdownUtils.insertParagraph: body.appendParagraph(line), then
\* applyBasicFormatting
ctxInsertParagraph(n, line, rejects) ==
    << Styled(TextOp("Paragraph", << n >>, line),
              Applied(applyBasicFormatting(line), rejects)) >>

\* MarkdownUtils.insertFormattedText: body.appendParagraph(text); the
\* replacements that follow change a local copy of the text only and set
\* attributes on the element
ctxInsertFormattedText(n, line, rejects) ==
    << Styled(TextOp("Paragraph", << n >>, line),
              Applied(formattedTextCalls(line), rejects)) >>

\* whether the host throws on a bad range among the calls (it may only when
\* there is one)
Rejections(calls) == IF HasBadRange(calls) THEN BOOLEAN ELSE {FALSE}

\* the end of a case of the switch: on to the next line, or the error of
\* the host
CtxStep(rejects) ==
    IF rejects
    THEN pc' = "failed" /\ err' = "Exception: the document rejected a text range" /\ i' = i
    ELSE i' = i + 1 /\ UNCHANGED << pc, err >>

\* MarkdownUtils.insertBlockquote: one indented paragraph of match[1]
ctxInsertBlockquote(n, line) ==
    LET rest == Drop(line, 1)
    IN  << TextOp("Blockquote", << n >>, Drop(rest, LeadingCount(rest, Space))) >>

\* case 'heading'
CtxHeading ==
    /\ CtxAt({"heading"})
    /\ \E rejects \in Rejections(applyBasicFormatting(ctxHeadingText(lines[i]))) :
          /\ ops' = ops \o ctxInsertHeading(i, lines[i], rejects)
          /\ CtxStep(rejects)
    /\ CtxClassified
    /\ linkLastIndex' = LineType.lastIndex
    /\ CtxFrame

\* case 'paragraph'
CtxParagraph ==
    /\ CtxAt({"paragraph"})
    /\ \E rejects \in Rejections(applyBasicFormatting(lines[i])) :
          /\ ops' = ops \o ctxInsertParagraph(i, lines[i], rejects)
          /\ CtxStep(rejects)
    /\ CtxClassified
    /\ linkLastIndex' = LineType.lastIndex
    /\ CtxFrame

\* case 'table': context.inTable is false (only MarkdownUtils.insertTable,
\* called from this case alone, sets it) and MarkdownUtils has no
\* isTableSeparator, so the condition of line 35 throws
CtxTable ==
    /\ CtxAt({"table"})
    /\ ~LineType.context.inTable
    /\ pc' = "failed"
    /\ err' = "TypeError: MarkdownUtils.isTableSeparator is not a function"
    /\ CtxClassified
    /\ linkLastIndex' = LineType.lastIndex
    /\ UNCHANGED << i, ops >>
    /\ CtxFrame

\* case 'blockquote'
CtxBlockquote ==
    /\ CtxAt({"blockquote"})
    /\ ops' = ops \o ctxInsertBlockquote(i, lines[i])
    /\ CtxClassified
    /\ linkLastIndex' = LineType.lastIndex
    /\ i' = i + 1 /\ UNCHANGED << pc, err >>
    /\ CtxFrame

\* case 'horizontalRule'
CtxHorizontalRule ==
    /\ CtxAt({"horizontalRule"})
    /\ ops' = Append(ops, TextOp("HorizontalRule", << i >>, << >>))
    /\ CtxClassified
    /\ linkLastIndex' = LineType.lastIndex
    /\ i' = i + 1 /\ UNCHANGED << pc, err >>
    /\ CtxFrame

\* default: insertFormattedText; its text.match(regex.link) leaves
\* regex.link.lastIndex at 0
CtxDefault ==
    /\ CtxAt({"listItem", "codeBlockStart", "codeBlockEnd", "codeBlockContent",
              "footnote", "link"})
    /\ \E rejects \in Rejections(formattedTextCalls(lines[i])) :
          /\ ops' = ops \o ctxInsertFormattedText(i, lines[i], rejects)
          /\ CtxStep(rejects)
    /\ CtxClassified
    /\ linkLastIndex' = 0
    /\ CtxFrame

\* MarkdownUtils.finalizeOpenElements: with a code block open,
\* context.codeBlockText is undefined (nothing ever sets it), it differs
\* from '' and its trim() throws; the other flags are reset and nothing is
\* written
CtxFinalize ==
    /\ pc = "dispatch" /\ i > Len(lines)
    /\ IF inCodeBlock /\ ctxCodeBlockText = "undefined"
       THEN /\ pc' = "failed"
            /\ err' = "TypeError: cannot read properties of undefined (reading 'trim')"
            /\ UNCHANGED << inCodeBlock, inBlockquote, inTable >>
       ELSE /\ pc' = "done"
            /\ err' = err
            /\ inCodeBlock' = FALSE /\ inBlockquote' = FALSE /\ inTable' = FALSE
    /\ UNCHANGED << lines, i, ops, tableLines, blockquoteLines, codeBlockText, codeSrc,
                    footnotes, referenceLinks, ctxCodeBlockText, linkLastIndex, returned >>

NextCtx ==
    \/ CtxStart
    \/ CtxHeading \/ CtxParagraph \/ CtxTable \/ CtxBlockquote \/ CtxHorizontalRule
    \/ CtxDefault
    \/ CtxFinalize

SpecCtx == InitCtx /\ [][NextCtx]_vars

Next ==
    \/ CursorInsert \/ CollectLine
    \/ Fence \/ CodeContent \/ HorizontalRule \/ Image \/ Blockquote \/ BlockquoteEnd
    \/ Heading \/ List \/ TableStart \/ TableEnd \/ TableRow \/ LinkTest
    \/ Finalize

Spec == Init /\ [][Next]_vars

(***************************************************************************)
(* Conversions in a row: parseAndInsertMarkdown called again in the same   *)
(* script context.  The variables declared in the function (lines 74-79,   *)
(* 98-99) are new on every call; `footnotes` and `referenceLinks` written  *)
(* by extractFootnoteDefinition and extractLinkDefinition are the          *)
(* module-level ones (lines 328, 369), and nothing resets them.            *)
(***************************************************************************)
\* the inputs of the later conversions
LaterInputs ==
    { << LFootRef >>, << LFootDef2, LFootRef >>, << LLinkDef2 >>, << LHeading, LFootRef >>,
      << LBold >> }

\* the next call of parseAndInsertMarkdown; ops is the log of the writes of
\* the running conversion
NextConversion ==
    /\ pc \in {"done", "failed"}
    /\ lines' \in LaterInputs
    /\ pc' = "cursor"
    /\ i' = 1
    /\ ops' = << >>
    /\ err' = "none"
    /\ inTable' = FALSE /\ tableLines' = << >>
    /\ inBlockquote' = FALSE /\ blockquoteLines' = << >>
    /\ inCodeBlock' = FALSE /\ codeBlockText' = << >>
    /\ codeSrc' = << >>
    /\ UNCHANGED << footnotes, referenceLinks, ctxCodeBlockText, linkLastIndex, returned >>

NextSession == Next \/ NextConversion

SpecSession == Init /\ [][NextSession]_vars

(***************************************************************************)
(* MarkdownParser.js: the text functions of the last branch (lines 154-156)*)
(***************************************************************************)
TagB == << "<", "b", ">" >>

TagBEnd == << "<", "/", "b", ">" >>

TagI == << "<", "i", ">" >>

TagIEnd == << "<", "/", "i", ">" >>

TagStrike == << "<", "s", "t", "r", "i", "k", "e", ">" >>

TagStrikeEnd == << "<", "/", "s", "t", "r", "i", "k", "e", ">" >>

\* line.replace(/d(.*?)d/g, open + '$1' + close) for the delimiter d of
\* length n, from position p on
RECURSIVE ReplaceTagged(_, _, _, _, _, _)
ReplaceTagged(text, d, n, p, open, close) ==
    IF p > Len(text) THEN << >>
    ELSE LET q == MatchAt(text, {d}, n, p)
         IN  IF q # 0
             THEN open \o SubSeq(text, p + n, q - 1) \o close
                      \o ReplaceTagged(text, d, n, q + n, open, close)
             ELSE << text[p] >> \o ReplaceTagged(text, d, n, p + 1, open, close)

\* processAdvancedFormatting: five replaces, each on the result of the one
\* before
processAdvancedFormatting(line) ==
    LET t1 == ReplaceTagged(line, << "*", "*" >>, 2, 1, TagB, TagBEnd)
        t2 == ReplaceTagged(t1, << "_", "_" >>, 2, 1, TagB, TagBEnd)
        t3 == ReplaceTagged(t2, << "*" >>, 1, 1, TagI, TagIEnd)
        t4 == ReplaceTagged(t3, << "_" >>, 1, 1, TagI, TagIEnd)
    IN  ReplaceTagged(t4, << "~", "~" >>, 2, 1, TagStrike, TagStrikeEnd)

\* the length of the run of \w characters of text that starts at position p
WordRun(text, p) == LeadingCount(Drop(text, p - 1), WordChar)

\* /\[\^(\w+)\]/ tried at position p: the position of the closing "]", 0
\* when there is no match at p
FootnoteRefAt(text, p) ==
    IF /\ p + 3 <= Len(text) /\ text[p] = "[" /\ text[p + 1] = "^"
       /\ WordRun(text, p + 2) >= 1
       /\ p + 2 + WordRun(text, p + 2) <= Len(text)
       /\ text[p + 2 + WordRun(text, p + 2)] = "]"
    THEN p + 2 + WordRun(text, p + 2)
    ELSE 0

\* processFootnotesInText from position p on: the text with every reference
\* removed, and the identifiers insertFootnoteContent was called with
RECURSIVE FootnotesFrom(_, _)
FootnotesFrom(text, p) ==
    IF p > Len(text) THEN [text |-> << >>, ids |-> << >>]
    ELSE LET c == FootnoteRefAt(text, p)
         IN  IF c # 0
             THEN LET r == FootnotesFrom(text, c + 1)
                  IN  [r EXCEPT !.ids = << SubSeq(text, p + 2, c - 1) >> \o @]
             ELSE LET r == FootnotesFrom(text, p + 1)
                  IN  [r EXCEPT !.text = << text[p] >> \o @]

processFootnotesInText(text) == FootnotesFrom(text, 1)

\* insertFootnoteContent: a footnote for an identifier whose stored text is
\* not empty
insertFootnoteContent(n, identifier) ==
    IF identifier \in DOMAIN footnotes /\ footnotes[identifier] # << >>
    THEN << TextOp("Footnote", << n >>, footnotes[identifier]) >>
    ELSE << >>

\* /\[([^\]]+)\]\[(\w+)\]/ tried at position p: the positions of the two
\* closing brackets, << >> when there is no match at p
ReferenceAt(text, p) ==
    LET bs == { b \in (p + 2)..Len(text) :
                  text[b] = "]" /\ \A k \in (p + 1)..(b - 1) : text[k] # "]" }
        b  == CHOOSE x \in bs : TRUE
        c  == b + 2 + WordRun(text, b + 2)
    IN  IF /\ p <= Len(text) /\ text[p] = "[" /\ bs # {}
           /\ b + 3 <= Len(text) /\ text[b + 1] = "["
           /\ WordRun(text, b + 2) >= 1
           /\ c <= Len(text) /\ text[c] = "]"
        THEN << b, c >>
        ELSE << >>

\* processReferenceLinksInText from position p on
RECURSIVE ReferencesFrom(_, _)
ReferencesFrom(text, p) ==
    IF p > Len(text) THEN << >>
    ELSE LET m == ReferenceAt(text, p)
         IN  IF m # << >>
             THEN LET linkText == SubSeq(text, p + 1, m[1] - 1)
                      linkId   == SubSeq(text, m[1] + 2, m[2] - 1)
                  IN  (IF linkId \in DOMAIN referenceLinks
                       THEN linkText \o << " ", "(" >> \o referenceLinks[linkId].url \o << ")" >>
                       ELSE linkText)
                          \o ReferencesFrom(text, m[2] + 1)
             ELSE << text[p] >> \o ReferencesFrom(text, p + 1)

processReferenceLinksInText(text) == ReferencesFrom(text, 1)

\* lines 154-156: the text the last branch builds from a line
processedText(line) ==
    processReferenceLinksInText(processFootnotesInText(processAdvancedFormatting(line)).text)

(***************************************************************************)
(* The functions called directly, one call for each line of the input      *)
(***************************************************************************)
LRefUse == << "[", "t", "]", "[", "a", "]" >>

LRefUseMarked == << "[", "t", "]", "[", "_", "a", "_", "]" >>

LRefUseStarred == << "[", "*", "t", "*", "]", "[", "a", "]" >>

LLinkDefMarked == << "[", "_", "a", "_", "]", ":", " ", "u" >>

\* [t](u)
LLink == << "[", "t", "]", "(", "u", ")" >>

\* a list item indented by one blank
LItemOdd == << " ", "-", " ", "c" >>

\* a list item indented by four blanks
LItemDeep == << " ", " ", " ", " ", "-", " ", "d" >>

CallLines == { LRefUse, LRefUseMarked, LRefUseStarred, LLinkDef, LLinkDefMarked,
               LFootRef, LFootDef, LBold, LLink, LFence, LItem, LSubItem, LItemOdd,
               LItemDeep, LNum }

CallInputs == UNION { [1..n -> CallLines] : n \in 1..MaxCalls }

InitCalls ==
    /\ lines \in CallInputs
    /\ pc = "calls"
    /\ i = 1
    /\ ops = << >>
    /\ err = "none"
    /\ inTable = FALSE /\ tableLines = << >>
    /\ inBlockquote = FALSE /\ blockquoteLines = << >>
    /\ inCodeBlock = FALSE /\ codeBlockText = << >>
    /\ codeSrc = << >>
    /\ footnotes = NoTable
    /\ referenceLinks = NoTable
    /\ ctxCodeBlockText = "undefined"
    /\ linkLastIndex = 0
    /\ returned = << >>

\* a call is made with the next line
CallAt == pc = "calls" /\ i <= Len(lines)

\* what no called function touches
CallFrame ==
    /\ i' = i + 1
    /\ UNCHANGED << lines, pc, err, tableLines, blockquoteLines, codeBlockText, codeSrc >>

\* a call: the function, the line it was given, the state it read beside
\* the line, and the value it returned
Returned(fn, args, value) == [fn |-> fn, line |-> i, args |-> args, value |-> value]

\* extractFootnoteDefinition(line); extractLinkDefinition(line)
CallExtractDefinitions ==
    /\ CallAt
    /\ footnotes' = extractFootnoteDefinition(footnotes, lines[i])
    /\ referenceLinks' = extractLinkDefinition(referenceLinks, lines[i])
    /\ CallFrame
    /\ UNCHANGED << ops, inTable, inBlockquote, inCodeBlock, ctxCodeBlockText, linkLastIndex,
                    returned >>

\* lines 154-156 on the line; processFootnotesInText writes a footnote for
\* every reference it removes
CallProcessText ==
    /\ CallAt
    /\ LET ids == processFootnotesInText(processAdvancedFormatting(lines[i])).ids
           RECURSIVE Notes(_)
           Notes(k) == IF k > Len(ids) THEN << >>
                       ELSE insertFootnoteContent(i, ids[k]) \o Notes(k + 1)
       IN  ops' = ops \o Notes(1)
    /\ returned' = Append(returned, Returned("processedText", << >>, processedText(lines[i])))
    /\ CallFrame
    /\ UNCHANGED << inTable, inBlockquote, inCodeBlock, ctxCodeBlockText, linkLastIndex,
                    footnotes, referenceLinks >>

\* MarkdownUtils.determineLineType(line, context)
CallDetermineLineType ==
    /\ CallAt
    /\ CtxClassified
    /\ linkLastIndex' = LineType.lastIndex
    /\ returned' = Append(returned,
                          Returned("determineLineType", << inCodeBlock >>, LineType.type))
    /\ CallFrame
    /\ UNCHANGED << ops, footnotes, referenceLinks >>

\* a number that need not be whole: num / den
Fraction(num, den) == [num |-> num, den |-> den]

\* match[3] of regex.listItem
ctxListText(line) ==
    LET s    == Drop(line, LeadingCount(line, Space))
        rest == Drop(s, MarkerLen(s))
    IN  Drop(rest, LeadingCount(rest, Space))

\* MarkdownUtils.insertList: appendListItem(''), a temporary paragraph for
\* applyBasicFormatting, then setText, setNestingLevel(match[1].length / 2)
\* and setGlyphType; rejects: the host throws on a bad range, the empty item
\* and the temporary paragraph stay
ctxInsertList(n, line, rejects) ==
    IF ~regexListItem(line) THEN << >>
    ELSE LET indent == LeadingCount(line, Space)
             text   == ctxListText(line)
             calls  == applyBasicFormatting(text)
         IN  IF rejects
             THEN << Op("ListItem", << n >>, << >>, Fraction(0, 1), FALSE, << >>),
                     Styled(TextOp("Paragraph", << n >>, text), Applied(calls, TRUE)) >>
             ELSE << Op("ListItem", << n >>, text, Fraction(indent, 2),
                        line[indent + 1] \in Digit, << >>) >>

\* MarkdownUtils.insertList(line, body, position, context)
CallInsertList ==
    /\ CallAt
    /\ \E rejects \in Rejections(applyBasicFormatting(ctxListText(lines[i]))) :
          /\ ops' = ops \o ctxInsertList(i, lines[i], rejects)
          /\ CtxStep(rejects)
    /\ UNCHANGED << lines, inTable, tableLines, inBlockquote, blockquoteLines, inCodeBlock,
                    codeBlockText, codeSrc, footnotes, referenceLinks, ctxCodeBlockText,
                    linkLastIndex, returned >>

NextCalls ==
    \/ CallExtractDefinitions
    \/ CallProcessText
    \/ CallDetermineLineType
    \/ CallInsertList

SpecCalls == InitCalls /\ [][NextCalls]_vars

(***************************************************************************)
(* Vocabulary of the properties                                            *)
(***************************************************************************)
Min(a, b) == IF a <= b THEN a ELSE b

Finished == pc \in {"done", "failed"}

\* the finalization step ran (to its end or to an error)
Finalized == Finished /\ i > Len(lines)

\* the writes built from input lines (all but the raw text of lines 82-96)
Parsed(o) == o.src # << >>

ParsedOps == SelectSeq(ops, Parsed)

OpsOfKind(kind) == { k \in DOMAIN ops : ops[k].kind = kind }

FenceLines == { k \in DOMAIN lines : StartsWith(lines[k], FenceMark) }

\* lines a < b are an opening fence and the fence that closes it
IsFencePair(a, b) ==
    /\ a \in FenceLines /\ b \in FenceLines /\ a < b
    /\ \A f \in FenceLines : ~(a < f /\ f < b)
    /\ Cardinality({ f \in FenceLines : f < a }) % 2 = 0

\* line a is an opening fence that no later fence closes
IsUnclosedFence(a) ==
    /\ a \in FenceLines
    /\ \A f \in FenceLines : f <= a
    /\ Cardinality({ f \in FenceLines : f < a }) % 2 = 0

\* line n is inside a fenced code block (or is one of its fences)
InCode(n) ==
    \/ n \in FenceLines
    \/ Cardinality({ f \in FenceLines : f < n }) % 2 = 1

Interior(a, b) == [k \in 1..(b - a - 1) |-> lines[a + k]]

\* the code blocks written for the fence opened at line a
CodeBlocksOf(a) ==
    { k \in OpsOfKind("CodeBlock") : Parsed(ops[k]) /\ ops[k].src[1] = a }

(***************************************************************************)
(* C1: for every fence pair of the input exactly one CodeBlock is written, *)
(* its text is the interior lines joined by newline, unchanged, and no     *)
(* interior line is written as any other operation.                        *)
(***************************************************************************)
C1_FencedCodeBlock ==
    Finished =>
        \A a \in DOMAIN lines : \A b \in DOMAIN lines :
            IsFencePair(a, b) =>
                /\ Cardinality(CodeBlocksOf(a)) = 1
                /\ \A k \in CodeBlocksOf(a) :
                      ops[k].text = Join(Interior(a, b), << "\n" >>)
                /\ \A k \in DOMAIN ops :
                      ops[k].kind # "CodeBlock" =>
                          \A n \in Range(ops[k].src) : ~(a < n /\ n < b)

(***************************************************************************)
(* C2: when a fence is opened and never closed the conversion ends         *)
(* normally and writes exactly one CodeBlock holding the lines accumulated *)
(* since the opening fence.                                                *)
(***************************************************************************)
C2_UnclosedFenceFlushed ==
    Finished =>
        \A a \in DOMAIN lines :
            IsUnclosedFence(a) =>
                /\ pc = "done" /\ err = "none"
                /\ Cardinality(CodeBlocksOf(a)) = 1
                /\ \A k \in CodeBlocksOf(a) :
                      /\ ops[k].text = Trim(Join(Interior(a, Len(lines) + 1), << "\n" >>))
                      /\ \A n \in (a + 1)..Len(lines) : n \in Range(ops[k].src)

(***************************************************************************)
(* C3: the end-to-end scenario writes exactly Heading(1, Title),           *)
(* ListItem(0, unordered, a), ListItem(1, unordered, b) and the table with *)
(* header H1 H2, alignments LEFT LEFT and the one body row 1 2.            *)
(***************************************************************************)
Cell(text) == [text |-> text, align |-> "LEFT"]

EndToEndOps ==
    << Op("Heading", << 1 >>, << "T", "i", "t", "l", "e" >>, 1, FALSE, << >>),
       Op("ListItem", << 2 >>, << "a" >>, 0, FALSE, << >>),
       Op("ListItem", << 3 >>, << "b" >>, 1, FALSE, << >>),
       Op("Table", << 4, 5, 6 >>, << >>, 0, FALSE,
          << << Cell(<< "H", "1" >>), Cell(<< "H", "2" >>) >>,
             << Cell(<< "1" >>), Cell(<< "2" >>) >> >>) >>

C3_EndToEnd == (lines = EndToEnd /\ Finished) => ParsedOps = EndToEndOps

(***************************************************************************)
(* C4: the writes keep source order: of two writes, the one whose first    *)
(* source line comes earlier is written earlier.                           *)
(***************************************************************************)
C4_SourceOrder ==
    \A j \in DOMAIN ops : \A k \in DOMAIN ops :
        (j < k /\ Parsed(ops[j]) /\ Parsed(ops[k])) => ops[j].src[1] <= ops[k].src[1]

(***************************************************************************)
(* C5: within a run of consecutive list-item lines the nesting level of    *)
(* each ListItem is the depth of the indentation stack, kept across the    *)
(* lines of the run, after popping the frames indented at least as much.   *)
(***************************************************************************)
\* the first line of the run of consecutive list-item lines that line n ends
RECURSIVE RunStart(_)
RunStart(n) == IF n > 1 /\ isList(lines[n - 1]) THEN RunStart(n - 1) ELSE n

\* the indentation stack after the lines r..n of a run
RECURSIVE ClaimedStack(_, _)
ClaimedStack(r, n) ==
    IF n < r THEN << >>
    ELSE Append(PopDeeper(ClaimedStack(r, n - 1), IndentOf(lines[n])), IndentOf(lines[n]))

ClaimedLevel(n) == Len(PopDeeper(ClaimedStack(RunStart(n), n - 1), IndentOf(lines[n])))

C5_ListNesting ==
    \A k \in OpsOfKind("ListItem") : ops[k].level = ClaimedLevel(ops[k].src[1])

(***************************************************************************)
(* C6: every table written from three or more buffered lines has one       *)
(* alignment per header cell, and a separator cell :---: gives CENTER,     *)
(* ---: gives RIGHT, --- and :--- give LEFT.                               *)
(***************************************************************************)
\* cell is dashes with an optional colon before and after them
IsAlignMarker(cell) ==
    LET lead  == IF Len(cell) >= 1 /\ cell[1] = ":" THEN 1 ELSE 0
        trail == IF Len(cell) >= 2 /\ cell[Len(cell)] = ":" THEN 1 ELSE 0
        core  == SubSeq(cell, 1 + lead, Len(cell) - trail)
    IN  Len(core) >= 1 /\ Range(core) = {"-"}

ClaimedAlignment(cell) ==
    IF cell[1] = ":" /\ cell[Len(cell)] = ":" THEN "CENTER"
    ELSE IF cell[Len(cell)] = ":" THEN "RIGHT"
    ELSE "LEFT"

\* the fields of a line between its bars that are not blank
Fields(line) == SelectSeq(Split(line, "|"), NonBlank)

HeaderAlignments(o) == [c \in 1..Len(o.rows[1]) |-> o.rows[1][c].align]

C6_TableAlignments ==
    \A k \in OpsOfKind("Table") :
        LET header == Fields(lines[ops[k].src[1]])
            marks  == Fields(lines[ops[k].src[2]])
            aligns == HeaderAlignments(ops[k])
        IN  /\ Len(ops[k].src) >= 3
            /\ Len(aligns) = Len(header)
            /\ \A c \in 1..Min(Len(header), Len(marks)) :
                  IsAlignMarker(Trim(marks[c])) =>
                      aligns[c] = ClaimedAlignment(Trim(marks[c]))

\* a table was written whose second line is a separator (regex.tableSeparator)
\* of the shape :-: and whose header cell is centred
C6_Witness ==
    \E k \in OpsOfKind("Table") :
        /\ regexTableSeparator(lines[ops[k].src[2]])
        /\ HeaderAlignments(ops[k]) = << "CENTER" >>

(***************************************************************************)
(* C7: an input with a definition line [^a]: note and one reference line   *)
(* text[^a] ends with exactly one footnote written, written for the        *)
(* reference line, whose paragraph no longer shows the [^a] marker.        *)
(***************************************************************************)
\* /\[\^(\w+)\]/ matches somewhere in the text
HasFootnoteMarker(text) ==
    \E a \in 1..Len(text) : \E b \in (a + 3)..Len(text) :
        /\ text[a] = "[" /\ text[a + 1] = "^" /\ text[b] = "]"
        /\ \A k \in (a + 2)..(b - 1) : text[k] \in WordChar

DefinitionLines == { n \in DOMAIN lines : isFootnoteDefinition(lines[n]) /\ ~InCode(n) }

ReferenceLines ==
    { n \in DOMAIN lines :
        HasFootnoteMarker(lines[n]) /\ ~isFootnoteDefinition(lines[n]) /\ ~InCode(n) }

C7_FootnoteRoundTrip ==
    (Finished /\ DefinitionLines # {} /\ Cardinality(ReferenceLines) = 1) =>
        /\ Cardinality(OpsOfKind("Footnote")) = 1
        /\ \A k \in OpsOfKind("Footnote") : Range(ops[k].src) \subseteq ReferenceLines
        /\ \E k \in OpsOfKind("Paragraph") :
              /\ Parsed(ops[k])
              /\ Range(ops[k].src) \subseteq ReferenceLines
              /\ ~HasFootnoteMarker(ops[k].text)

(***************************************************************************)
(* C8: a footnote-definition line (outside a code block) causes no write   *)
(* in the main pass.                                                       *)
(***************************************************************************)
C8_DefinitionLineSilent ==
    \A k \in DOMAIN ops : Range(ops[k].src) \cap DefinitionLines = {}

(***************************************************************************)
(* C9: when the finalization has run, a table or blockquote buffer that    *)
(* was still open and not empty has been written as one final block        *)
(* holding the buffered lines.                                             *)
(***************************************************************************)
C9_BuffersFlushed ==
    Finalized =>
        /\ (inTable /\ tableLines # << >>) =>
              \E k \in OpsOfKind("Table") : ops[k].src = Sources(tableLines)
        /\ (inBlockquote /\ blockquoteLines # << >>) =>
              \E k \in OpsOfKind("Blockquote") : ops[k].src = Sources(blockquoteLines)

(***************************************************************************)
(* C10: no conversion ends in an error (every host operation of the model  *)
(* succeeds, a failed image fetch being caught by insertImage).            *)
(***************************************************************************)
C10_NoError == pc # "failed" /\ err = "none"

(***************************************************************************)
(* C11: a failed fetch of the image of an image line skips that Image      *)
(* write and nothing else: no error ends the conversion, the writes made   *)
(* so far are kept, and the parser goes on to the next line in the state   *)
(* it would be in had the fetch succeeded.                                 *)
(***************************************************************************)
\* the line at i is an image line whose image insertImage is asked to fetch
FetchesImage ==
    AtLine("image") /\ ~inBlockquote /\ extractImageUrl(lines[i]) # << >>

\* what the parser carries from one line to the next, the document aside
ParseState ==
    << inTable, tableLines, inBlockquote, blockquoteLines, inCodeBlock, codeBlockText,
       codeSrc, footnotes, referenceLinks >>

C11_ImageFailureContained ==
    [][FetchesImage =>
          /\ pc' = "parse" /\ err' = "none"
          /\ i' = i + 1
          /\ ops' \in { ops, Append(ops, TextOp("Image", << i >>, extractImageUrl(lines[i]))) }
          /\ ParseState' = ParseState]_vars

\* the fetch for the image line 1 failed, and the heading of line 2 was
\* written all the same
C11_Witness ==
    /\ lines = << LImage, LHeading >>
    /\ pc = "done" /\ err = "none"
    /\ ParsedOps = insertHeading(2, LHeading)

(***************************************************************************)
(* C12: inline emphasis is resolved as bold-italic, bold, italic,          *)
(* strikethrough, each on the text the step before left: the line ***x***  *)
(* is written as the text x, bold and italic, with no asterisk left, and   *)
(* the line **bold** and *italic* as bold in bold only, and unstyled,      *)
(* italic in italic only.                                                  *)
(***************************************************************************)
\* the text bold and italic
BoldAndItalicText ==
    << "b", "o", "l", "d", " ", "a", "n", "d", " ", "i", "t", "a", "l", "i", "c" >>

\* its styles: bold on 1-4, nothing on 5-9, italic on 10-15
BoldAndItalicStyles ==
    [k \in 1..15 |-> IF k <= 4 THEN {"bold"} ELSE IF k <= 9 THEN {} ELSE {"italic"}]

C12_EmphasisSpans ==
    \A k \in DOMAIN ops :
        (Parsed(ops[k]) /\ Len(ops[k].src) = 1) =>
            /\ lines[ops[k].src[1]] = LBoldItalic =>
                  /\ ops[k].text = << "x" >>
                  /\ ops[k].styles = << {"bold", "italic"} >>
            /\ lines[ops[k].src[1]] = LBoldAndItalic =>
                  /\ ops[k].text = BoldAndItalicText
                  /\ ops[k].styles = BoldAndItalicStyles

(***************************************************************************)
(* C13: every line is dispatched by the first rule that matches it in the  *)
(* order code fence / code content, heading, list item, blockquote,        *)
(* horizontal rule, table, then footnote definition, inline link or image, *)
(* paragraph.                                                              *)
(***************************************************************************)
\* the rule the claimed order selects for a line, by the tests of the parser
ClaimedRule(line) ==
    CASE StartsWith(line, FenceMark)              -> "fence"
      [] OTHER -> CASE inCodeBlock                -> "code"
      [] OTHER -> CASE isHeading(line)            -> "heading"
      [] OTHER -> CASE isList(line)               -> "list"
      [] OTHER -> CASE isBlockquote(line)         -> "blockquote"
      [] OTHER -> CASE StartsWith(line, RuleMark) -> "rule"
      [] OTHER -> CASE isTable(line)              -> "table"
      [] OTHER -> CASE isImage(line)              -> "image"
      [] OTHER -> "text"

\* the rule a branch of the parser stands for: the three table branches are
\* the table rule, and the branches that close a buffer on a line of plain
\* text are, like the link test, the rules after the table rule
RuleOf(branch) ==
    CASE branch \in {"tableStart", "tableRow"}       -> "table"
      [] branch \in {"tableEnd", "quoteEnd", "link"} -> "text"
      [] OTHER                                       -> branch

C13_Precedence ==
    (pc = "parse" /\ i <= Len(lines)) => RuleOf(Branch(lines[i])) = ClaimedRule(lines[i])

(***************************************************************************)
(* C14: determineLineType leaves every field of the parse context but the  *)
(* code-block flag as it found it, for every line and every context.       *)
(***************************************************************************)
\* the contexts determineLineType is tried on
Contexts ==
    [inList : BOOLEAN, listLevel : 0..1, inTable : BOOLEAN, inBlockquote : BOOLEAN,
     inCodeBlock : BOOLEAN, codeBlockText : {"undefined", ""}]

C14_ClassifierFrame ==
    (pc = "dispatch" /\ i <= Len(lines)) =>
        \A c \in Contexts \cup {Context} :
            LET after == determineLineType(lines[i], c, linkLastIndex).context
            IN  \A f \in DOMAIN c \ {"inCodeBlock"} : after[f] = c[f]

\* the fence of line 1 was classified: the code-block flag is set and the
\* rest of the context is as it was created
C14_Witness ==
    /\ pc = "dispatch" /\ i = 2 /\ lines[1] = LFence
    /\ Context = [inList |-> FALSE, listLevel |-> 0, inTable |-> FALSE,
                  inBlockquote |-> FALSE, inCodeBlock |-> TRUE,
                  codeBlockText |-> "undefined"]

(***************************************************************************)
(* C15: the collection pass is over before the main pass handles its first *)
(* line: every line of the main pass sees the tables built from all the    *)
(* lines, and a footnote reference on a line of plain text is resolved     *)
(* against its definition wherever that stands, after the reference too.   *)
(***************************************************************************)
\* the footnote table and the link table built from the lines 1..n
RECURSIVE CollectedFootnotes(_)
CollectedFootnotes(n) ==
    IF n = 0 THEN NoTable
    ELSE extractFootnoteDefinition(CollectedFootnotes(n - 1), lines[n])

RECURSIVE CollectedLinks(_)
CollectedLinks(n) ==
    IF n = 0 THEN NoTable
    ELSE extractLinkDefinition(CollectedLinks(n - 1), lines[n])

\* the identifiers of the footnote markers of a text
RefIds(text) ==
    { SubSeq(text, a + 2, b - 1) : << a, b >> \in
        { ab \in (1..Len(text)) \X (1..Len(text)) :
            /\ ab[1] + 3 <= ab[2]
            /\ text[ab[1]] = "[" /\ text[ab[1] + 1] = "^" /\ text[ab[2]] = "]"
            /\ \A k \in (ab[1] + 2)..(ab[2] - 1) : text[k] \in WordChar } }

\* a line that no block rule matches
PlainText(line) ==
    /\ ~StartsWith(line, FenceMark) /\ ~StartsWith(line, RuleMark)
    /\ ~isHeading(line) /\ ~isList(line) /\ ~isBlockquote(line)
    /\ ~isTable(line) /\ ~isImage(line)

\* the main pass sees the tables built from all the lines
TablesComplete ==
    pc = "parse" =>
        /\ footnotes = CollectedFootnotes(Len(lines))
        /\ referenceLinks = CollectedLinks(Len(lines))

C15_TwoPass ==
    /\ TablesComplete
    /\ Finished =>
          \A n \in ReferenceLines :
              PlainText(lines[n]) =>
                  \A id \in RefIds(lines[n]) \cap DOMAIN CollectedFootnotes(Len(lines)) :
                      \E k \in OpsOfKind("Footnote") :
                          /\ ops[k].src = << n >>
                          /\ ops[k].text = CollectedFootnotes(Len(lines))[id]

(***************************************************************************)
(* C16: after the collection pass each table maps every identifier that    *)
(* is defined to the definition of the last line that defines it, and no   *)
(* line is entered in both tables.                                         *)
(***************************************************************************)
\* line n is the last line that defines the footnote id / the link id
LastFootnoteDefinition(id, n) ==
    /\ isFootnoteDefinition(lines[n]) /\ FootnoteId(lines[n]) = id
    /\ \A m \in (n + 1)..Len(lines) :
          ~(isFootnoteDefinition(lines[m]) /\ FootnoteId(lines[m]) = id)

LastLinkDefinition(id, n) ==
    /\ isLinkDefinition(lines[n]) /\ LinkId(lines[n]) = id
    /\ \A m \in (n + 1)..Len(lines) :
          ~(isLinkDefinition(lines[m]) /\ LinkId(lines[m]) = id)

C16_LastDefinitionWins ==
    pc \in {"parse", "done", "failed"} =>
        /\ DOMAIN footnotes =
              { FootnoteId(lines[n]) : n \in { n \in DOMAIN lines : isFootnoteDefinition(lines[n]) } }
        /\ DOMAIN referenceLinks =
              { LinkId(lines[n]) : n \in { n \in DOMAIN lines : isLinkDefinition(lines[n]) } }
        /\ \A n \in DOMAIN lines :
              /\ \A id \in DOMAIN footnotes :
                    LastFootnoteDefinition(id, n) => footnotes[id] = FootnoteText(lines[n])
              /\ \A id \in DOMAIN referenceLinks :
                    LastLinkDefinition(id, n) =>
                        /\ referenceLinks[id].url = LinkUrl(lines[n])
                        /\ referenceLinks[id].title = LinkTitle(lines[n])
              /\ ~(isFootnoteDefinition(lines[n]) /\ isLinkDefinition(lines[n]))

\* the footnote a was defined on lines 1 and 3 and the link a on line 2:
\* the tables hold the definition of line 3 and that of line 2
C16_Witness ==
    /\ pc = "parse"
    /\ lines = << LFootDef, LLinkDef, LFootDef2 >>
    /\ footnotes[<< "a" >>] = << "m" >>
    /\ referenceLinks[<< "a" >>] = [url |-> << "u" >>, title |-> << >>]

(***************************************************************************)
(* C17: in every state at most one of the three multi-line constructs      *)
(* (code block, table, blockquote) is open.                                *)
(***************************************************************************)
C17_OneConstructOpen ==
    /\ ~(inCodeBlock /\ inTable)
    /\ ~(inCodeBlock /\ inBlockquote)
    /\ ~(inTable /\ inBlockquote)

(***************************************************************************)
(* C18: the code-block mode flips once at every fence line and at no other *)
(* line, so after any prefix of the input the parser is in code-block mode *)
(* iff the prefix holds an odd number of fence lines; and a fence line is  *)
(* never written as content or as a paragraph.                             *)
(***************************************************************************)
FencesBefore(n) == Cardinality({ f \in FenceLines : f < n })

\* the lines a code block was accumulated from, its opening fence aside
ContentOf(o) == [n \in 1..(Len(o.src) - 1) |-> lines[o.src[n + 1]]]

TableLine(n) ==
    /\ n \in DOMAIN lines /\ ~InCode(n)
    /\ isTable(lines[n])
    /\ ~StartsWith(lines[n], RuleMark) /\ ~isImage(lines[n]) /\ ~isBlockquote(lines[n])
    /\ ~isHeading(lines[n]) /\ ~isList(lines[n])

\* the lines a..b are a maximal run of table lines
TableRun(a, b) ==
    /\ a <= b
    /\ \A n \in a..b : TableLine(n)
    /\ ~TableLine(a - 1) /\ ~TableLine(b + 1)

C19_OneTablePerRun ==
    \A a \in DOMAIN lines : \A b \in DOMAIN lines :
        (TableRun(a, b) /\ pc \in {"parse", "done", "failed"} /\ i > b) =>
            Cardinality({ k \in OpsOfKind("Table") :
                            ops[k].src = [n \in 1..(b - a + 1) |-> a + n - 1] }) = 1

(***************************************************************************)
(* C20: a table written from a header line, a separator line and later     *)
(* lines has the header row and one body row for every later line, none    *)
(* for the separator; the cells of a row are the fields of its line        *)
(* between the bars, the empty fields before the first bar and after the   *)
(* last one left out.                                                      *)
(***************************************************************************)
\* the fields of a line, without a blank first field and a blank last field
InnerFields(line) ==
    LET fs   == Split(line, "|")
        from == IF Trim(fs[1]) = << >> THEN 2 ELSE 1
        to   == IF Len(fs) >= 2 /\ Trim(fs[Len(fs)]) = << >> THEN Len(fs) - 1 ELSE Len(fs)
    IN  SubSeq(fs, from, to)

ClaimedCells(line) == [c \in 1..Len(InnerFields(line)) |-> Trim(InnerFields(line)[c])]

\* every field of the line is dashes with optional colons
IsSeparatorLine(line) ==
    /\ Len(InnerFields(line)) >= 1
    /\ \A c \in 1..Len(InnerFields(line)) : IsAlignMarker(Trim(InnerFields(line)[c]))

RowTexts(row) == [c \in 1..Len(row) |-> row[c].text]

C20_TableRows ==
    \A k \in OpsOfKind("Table") :
        LET o == ops[k]
        IN  (Len(o.src) >= 3 /\ IsSeparatorLine(lines[o.src[2]])) =>
                /\ Len(o.rows) = Len(o.src) - 1
                /\ RowTexts(o.rows[1]) = ClaimedCells(lines[o.src[1]])
                /\ \A r \in 2..Len(o.rows) :
                      RowTexts(o.rows[r]) = ClaimedCells(lines[o.src[r + 1]])

(***************************************************************************)
(* C21: a run of consecutive blockquote lines that a further line follows  *)
(* gives exactly one blockquote, whose text is the de-marked lines of the  *)
(* run joined by newlines; it is written before any write of the line that *)
(* ends the run, and that line, when it is not blank, still gives its own  *)
(* write.                                                                  *)
(***************************************************************************)
\* line n is a blockquote line that no earlier rule of the parser takes
BlockquoteLine(n) ==
    /\ n \in DOMAIN lines /\ ~InCode(n)
    /\ isBlockquote(lines[n])
    /\ ~StartsWith(lines[n], RuleMark) /\ ~isImage(lines[n])

\* the lines a..b are a maximal run of blockquote lines
BlockquoteRun(a, b) ==
    /\ a <= b
    /\ \A n \in a..b : BlockquoteLine(n)
    /\ ~BlockquoteLine(a - 1) /\ ~BlockquoteLine(b + 1)

\* the writes made for the run a..b
BlockquotesOf(a, b) ==
    { k \in OpsOfKind("Blockquote") : ops[k].src = [n \in 1..(b - a + 1) |-> a + n - 1] }

C21_BlockquoteRun ==
    Finished =>
        \A a \in DOMAIN lines : \A b \in DOMAIN lines :
            (BlockquoteRun(a, b) /\ b < Len(lines)) =>
                /\ Cardinality(BlockquotesOf(a, b)) = 1
                /\ \A k \in BlockquotesOf(a, b) :
                      /\ ops[k].text =
                            Join([n \in 1..(b - a + 1) |-> Demarked(lines[a + n - 1])], << "\n" >>)
                      /\ \A j \in DOMAIN ops : (b + 1) \in Range(ops[j].src) => k < j
                /\ Trim(lines[b + 1]) # << >> =>
                      \E j \in DOMAIN ops : (b + 1) \in Range(ops[j].src)

(***************************************************************************)
(* C22: the step that handles a line as a plain paragraph (the line has    *)
(* passed every structural test of the chain) writes exactly one paragraph *)
(* for that line and adds nothing to the blockquote buffer.                *)
(***************************************************************************)
C22_OneParagraphPerLine ==
    [][ AtLine("link") =>
          /\ Len(ops') = Len(ops) + 1
          /\ SubSeq(ops', 1, Len(ops)) = ops
          /\ ops'[Len(ops')].kind = "Paragraph"
          /\ ops'[Len(ops')].src = << i >>
          /\ blockquoteLines' = blockquoteLines ]_vars

(***************************************************************************)
(* C23: the text built for a paragraph line has every usage [text][id] of  *)
(* a defined id replaced with the url of the definition table, also when   *)
(* the id or the text holds emphasis markers: the substitutions come       *)
(* before the emphasis.                                                    *)
(***************************************************************************)
\* the usages [text][id] of a line
RECURSIVE UsagesFrom(_, _)
UsagesFrom(text, p) ==
    IF p > Len(text) THEN {}
    ELSE LET m == ReferenceAt(text, p)
         IN  IF m # << >>
             THEN { [text |-> SubSeq(text, p + 1, m[1] - 1),
                     id |-> SubSeq(text, m[1] + 2, m[2] - 1)] }
                      \cup UsagesFrom(text, m[2] + 1)
             ELSE UsagesFrom(text, p + 1)

\* the last call was processedText on the line before i
TextJustBuilt ==
    /\ returned # << >>
    /\ returned[Len(returned)].fn = "processedText"
    /\ returned[Len(returned)].line = i - 1

C23_SubstitutionFirst ==
    TextJustBuilt =>
        \A u \in UsagesFrom(lines[i - 1], 1) :
            u.id \in DOMAIN referenceLinks =>
                IndexOf(returned[Len(returned)].value,
                        << " ", "(" >> \o referenceLinks[u.id].url \o << ")" >>) # -1

(***************************************************************************)
(* C24: a table run of fewer than three lines raises no error and is not   *)
(* discarded: once the run has ended, every line of it is part of a table  *)
(* or of a paragraph written to the document.                              *)
(***************************************************************************)
\* the run a..b has ended: a later line has been handled, or the conversion
\* has finished without an error
RunEnded(b) == (pc = "parse" /\ i > b + 1) \/ pc = "done"

C24_ShortTableKept ==
    \A a \in DOMAIN lines : \A b \in DOMAIN lines :
        (TableRun(a, b) /\ b - a + 1 < 3) =>
            /\ pc = "failed" => i \notin a..b
            /\ RunEnded(b) =>
                  \A n \in a..b : \E k \in DOMAIN ops :
                      /\ ops[k].kind \in {"Table", "Paragraph"}
                      /\ n \in Range(ops[k].src)

(***************************************************************************)
(* C25: every heading written has a level from 1 to 6, and the line it was *)
(* built from starts with one to six "#" followed by whitespace; a line    *)
(* that starts with seven or more "#" gives no heading.                    *)
(***************************************************************************)
C25_HeadingLevels ==
    \A k \in OpsOfKind("Heading") :
        LET line   == lines[ops[k].src[1]]
            hashes == LeadingCount(line, {"#"})
        IN  /\ ops[k].level \in 1..6
            /\ hashes \in 1..6
            /\ hashes < Len(line) /\ line[hashes + 1] \in Space

(***************************************************************************)
(* C26: a horizontal rule is written for a line outside a code block if    *)
(* and only if the line is three or more "-" and nothing else.             *)
(***************************************************************************)
\* the line is -{3,} and nothing else
OnlyHyphens(line) == Len(line) >= 3 /\ \A k \in 1..Len(line) : line[k] = "-"

\* line n has been handled by the second pass
Handled(n) == n \in DOMAIN lines /\ pc \in {"parse", "dispatch", "done", "failed"} /\ n < i

C26_HorizontalRule ==
    \A n \in DOMAIN lines :
        (Handled(n) /\ ~InCode(n)) =>
            ((\E k \in OpsOfKind("HorizontalRule") : ops[k].src = << n >>)
                <=> OnlyHyphens(lines[n]))

(***************************************************************************)
(* C27: every list line outside a code block gives exactly one list item,  *)
(* written while the line is handled; the item is ordered iff the marker   *)
(* is digits and a dot, and its text is the line without its indentation   *)
(* and marker.                                                             *)
(***************************************************************************)
\* line n is a list line that no other construct claims
ListLine(n) ==
    /\ n \in DOMAIN lines /\ ~InCode(n)
    /\ isList(lines[n])
    /\ ~StartsWith(lines[n], RuleMark) /\ ~isImage(lines[n]) /\ ~isBlockquote(lines[n])

\* the line without its indentation
Unindented(line) == Drop(line, LeadingCount(line, Space))

\* the marker is digits and a dot
ClaimedOrdered(line) ==
    LET t == Unindented(line)
        d == LeadingCount(t, Digit)
    IN  d >= 1 /\ d < Len(t) /\ t[d + 1] = "."

\* the line without indentation, marker and the blanks after the marker
ClaimedItemText(line) ==
    LET t    == Unindented(line)
        rest == IF ClaimedOrdered(line) THEN Drop(t, LeadingCount(t, Digit) + 1)
                                        ELSE Drop(t, 1)
    IN  Unindented(rest)

\* the list items written for line n
ItemsOf(n) == { k \in OpsOfKind("ListItem") : ops[k].src = << n >> }

C27_OneItemPerListLine ==
    \A n \in DOMAIN lines :
        (Handled(n) /\ ListLine(n)) =>
            /\ Cardinality(ItemsOf(n)) = 1
            /\ \A k \in ItemsOf(n) :
                  /\ ops[k].ordered = ClaimedOrdered(lines[n])
                  /\ ops[k].text = ClaimedItemText(lines[n])

(***************************************************************************)
(* C28: determineLineType returns the same type for the same line and the  *)
(* same code-block flag on every call, whatever was classified before.     *)
(***************************************************************************)
\* the calls of determineLineType made so far
Classifications == { k \in DOMAIN returned : returned[k].fn = "determineLineType" }

C28_ClassificationDeterministic ==
    \A a \in Classifications : \A b \in Classifications :
        (/\ lines[returned[a].line] = lines[returned[b].line]
         /\ returned[a].args = returned[b].args)
            => returned[a].value = returned[b].value

(***************************************************************************)
(* C29: once the first pass of a conversion is over, the footnote table    *)
(* and the link-definition table hold only definitions found in the lines  *)
(* of that conversion, whatever conversions ran before it.                 *)
(***************************************************************************)
\* the first pass of the running conversion is over
FirstPassOver == pc \in {"parse", "done", "failed"}

C29_ConversionsIsolated ==
    FirstPassOver =>
        /\ \A id \in DOMAIN footnotes :
              \E n \in DOMAIN lines :
                  /\ isFootnoteDefinition(lines[n])
                  /\ FootnoteId(lines[n]) = id /\ FootnoteText(lines[n]) = footnotes[id]
        /\ \A id \in DOMAIN referenceLinks :
              \E n \in DOMAIN lines :
                  /\ isLinkDefinition(lines[n])
                  /\ LinkId(lines[n]) = id /\ LinkUrl(lines[n]) = referenceLinks[id].url

(***************************************************************************)
(* C30: every nesting level given to the host for a list item is a whole   *)
(* number that is not negative, and the item of a list line is at most one *)
(* level deeper than the item of the list line before it.                  *)
(***************************************************************************)
\* the fraction is a whole number, zero or more
IsWholeLevel(f) == f.num >= 0 /\ f.num % f.den = 0

\* f exceeds g by at most one
AtMostOneDeeper(f, g) == f.num * g.den - g.num * f.den <= f.den * g.den

C30_NestingLevels ==
    \A k \in OpsOfKind("ListItem") :
        /\ IsWholeLevel(ops[k].level)
        /\ \A j \in OpsOfKind("ListItem") :
              ops[j].src[1] + 1 = ops[k].src[1] =>
                  AtMostOneDeeper(ops[k].level, ops[j].level)

(***************************************************************************)
(* C31: when the conversion has finished, every line that is not blank, is *)
(* outside a code block and is no footnote or link definition is among the *)
(* source lines of at least one write; so is the line that ends a table    *)
(* run.                                                                    *)
(***************************************************************************)
\* line n has text the document must show; an image line is left out, its
\* write depends on the host fetching the image
ContentLine(n) ==
    /\ n \in DOMAIN lines /\ ~InCode(n)
    /\ Trim(lines[n]) # << >>
    /\ ~isFootnoteDefinition(lines[n]) /\ ~isLinkDefinition(lines[n])
    /\ ~isImage(lines[n])

\* line n is among the source lines of a write
Emitted(n) == \E k \in DOMAIN ops : n \in Range(ops[k].src)

C31_NoLineDiscarded ==
    pc = "done" => \A n \in DOMAIN lines : ContentLine(n) => Emitted(n)

(***************************************************************************)
(* C32: every write made to the document is a block built from one or more *)
(* input lines; the raw text of the input is never inserted, with or       *)
(* without a cursor.                                                       *)
(***************************************************************************)
C32_OnlyParsedWrites ==
    \A k \in DOMAIN ops :
        /\ ops[k].kind # "InsertText"
        /\ ops[k].src # << >>
        /\ \A n \in Range(ops[k].src) : n \in DOMAIN lines

====
